---- MODULE Spec2Model ----
(***************************************************************************)
(* Access-control core of enterprise-taskflow (src/app.js, server part):   *)
(* the users / role_permissions / tasks tables, the login handler with its *)
(* lockout bookkeeping, JWT session tokens, and the admin-only user        *)
(* management handlers.                                                    *)
(*                                                                         *)
(* Granularity: every SQL statement is one atomic step.  A handler is cut  *)
(* at its `await dbGet/dbRun` points; the synchronous code that follows a  *)
(* statement is part of the step that executes the statement.  Requests    *)
(* occupy slots of `reqs`; two busy slots are two requests in flight.      *)
(***************************************************************************)
EXTENDS Integers, Naturals, Sequences, FiniteSets, TLC

(***************************************************************************)
(* Bounds of the model                                                     *)
(***************************************************************************)
MaxUsers == 2          \* rows of the users table (bootstrap admin included)
MaxAttempts == 6       \* largest login_attempts value a failed login may write
MaxTicks == 3          \* clock advances per behaviour
MaxTokens == 2         \* session tokens issued per behaviour
MaxTasks == 4          \* rows of the tasks table (3 sample tasks included)
MaxKeys == 2           \* distinct values of JWT_SECRET over restarts

(***************************************************************************)
(* Program constants                                                       *)
(***************************************************************************)
LOCK_THRESHOLD == 5            \* if (newAttempts >= 5)
LOCKOUT_MS == 900000           \* 15 * 60 * 1000
TOKEN_TTL_S == 86400           \* expiresIn: '24h', in seconds
NoLock == 0                    \* locked_until IS NULL (falsy, like 0)
SampleTasks == 3               \* sampleTasks.length

Roles == {"admin", "manager", "employee"}
ADMIN_EMAIL == "admin@taskflow.com"
ADMIN_PASSWORD == "Admin123!"
Emails == {ADMIN_EMAIL, "bob@x.com", "eve@x.com"}
Passwords == {ADMIN_PASSWORD, "Secret123"}
Capabilities ==
    {"create_task", "edit_task", "delete_task", "view_users", "add_users",
     "edit_users", "remove_users", "view_activity_logs", "upload_files",
     "download_files", "delete_files"}

UNDEF == "undefined"           \* a field the JSON body does not carry

SINGLE_ADMIN_ERROR == "Only one administrator account is allowed in the system"
SELF_MODIFICATION_ERROR ==
    "Cannot modify your own admin role or deactivate your own account"

(***************************************************************************)
(* State                                                                   *)
(***************************************************************************)
VARIABLES
    users,             \* table users: sequence of rows, id = index
    role_permissions,  \* table role_permissions: role with a row -> stored object
    tasks,             \* table tasks: sequence of rows
    JWT_SECRET,        \* the process-wide signing key
    now,               \* Date.now(), milliseconds
    ticks,             \* clock advances so far (bounds the clock)
    tokens,            \* session tokens issued so far (held by clients)
    reqs,              \* requests in flight, per slot
    last,              \* the response most recently sent
    obs,               \* observer: per user, consecutive wrong-password
                       \* answers and the time the latest one was computed
    activity_logs,     \* table activity_logs: the <<user_id, activity_type>>
                       \* pairs that have a row (user_id NULL is 0)
    client             \* one browser tab: the EnterpriseTaskFlow instance,
                       \* localStorage and sessionStorage

vars == <<users, role_permissions, tasks, JWT_SECRET, now, ticks, tokens,
          reqs, last, obs, activity_logs, client>>

ReqIds == {1, 2}

(***************************************************************************)
(* Pure helpers                                                            *)
(***************************************************************************)
\* bcrypt.hash(password, SALT_ROUNDS): one-way, modelled as a tagged value
Hash(p) == <<"bcrypt", p>>

\* bcrypt.compare(password, hash)
Compare(p, h) == h = Hash(p)

\* node-sqlite3 parameter binding of a JSON boolean: true -> 1, false -> 0,
\* undefined -> the parameter stays unbound, which SQLite reads as NULL
BindBool(v) == IF v = "true" THEN "1" ELSE IF v = "false" THEN "0" ELSE "NULL"

\* Math.floor(Date.now() / 1000): the clock jsonwebtoken stamps and compares
NowSec(t) == t \div 1000

UserIds == 1..Len(users)

\* SELECT ... FROM users WHERE email = ?  (0: no row)
FindByEmail(us, e) ==
    IF \E i \in 1..Len(us) : us[i].email = e
    THEN CHOOSE i \in 1..Len(us) : us[i].email = e
    ELSE 0

\* a column that holds NULL
NULL == "NULL"

\* avatar_url || 'https://i.imgur.com/RpGGkQ1.png'
DEFAULT_AVATAR == "https://i.imgur.com/RpGGkQ1.png"

AdminRow ==
    [email |-> ADMIN_EMAIL, password_hash |-> Hash(ADMIN_PASSWORD),
     name |-> "System Administrator", role |-> "admin", is_active |-> "1",
     login_attempts |-> 0, locked_until |-> NoLock,
     department |-> "Management", position |-> "System Manager",
     phone |-> NULL, avatar_url |-> DEFAULT_AVATAR]

DefaultPermissions ==
    [r \in Roles |->
        [c \in Capabilities |->
            CASE r = "admin" -> TRUE
              [] r = "manager" ->
                    c \in {"create_task", "edit_task", "view_users",
                           "view_activity_logs", "upload_files",
                           "download_files", "delete_files"}
              [] OTHER ->
                    c \in {"edit_task", "upload_files", "download_files"}]]

\* A session token: the payload jwt.sign embeds, the key that signed it, and
\* (for the observer only) the millisecond instant T it was issued at.
NoToken == [userId |-> 0, email |-> "", iat |-> 0, exp |-> 0, key |-> 0, T |-> 0]

\* A bearer string that is not a JWT: jwt.verify throws on it, as it does on a
\* token of another key
Malformed == [NoToken EXCEPT !.email = "garbage"]

\* A JSON permissions object of a request body: the keys it carries and the
\* keys whose value is true; present = FALSE is a body without the field.
NoObject == [present |-> FALSE, keys |-> {}, granted |-> {}]
ObjectOf(f) ==
    [present |-> TRUE, keys |-> DOMAIN f, granted |-> {c \in DOMAIN f : f[c]}]

\* A request: the inputs it arrived with and the locals of its handler.
Idle ==
    [kind |-> "idle", pc |-> "idle", token |-> NoToken, actorId |-> 0,
     actorRole |-> "", target |-> 0, email |-> "", password |-> "",
     name |-> "", role |-> "", is_active |-> "", title |-> "",
     perms |-> NoObject, pwOk |-> FALSE, snapAttempts |-> 0,
     newAttempts |-> 0, lockedUntil |-> NoLock, computedAt |-> 0, at |-> 0,
     secret |-> 0, department |-> "", position |-> "", phone |-> "",
     avatar_url |-> "", assignee_id |-> 0, rows |-> {}, total |-> 0]

\* A response, with the request it answers: res.status(..).json({error: ..})
Response(q, status, error, wrote) ==
    [kind |-> q.kind, status |-> status, error |-> error, wrote |-> wrote,
     token |-> q.token, actorId |-> q.actorId, actorRole |-> q.actorRole,
     target |-> q.target, email |-> q.email, name |-> q.name,
     role |-> q.role, is_active |-> q.is_active, title |-> q.title,
     perms |-> q.perms, pwOk |-> q.pwOk, snapAttempts |-> q.snapAttempts,
     at |-> q.at, secret |-> q.secret, rows |-> q.rows, total |-> q.total]

NoResponse == Response(Idle, 0, "", FALSE)

\* A request arriving takes the lowest free slot (slots are interchangeable)
FreeSlot(r) ==
    /\ reqs[r].pc = "idle"
    /\ \A s \in ReqIds : s < r => reqs[s].pc # "idle"

Respond(r, resp) ==
    /\ last' = resp
    /\ reqs' = [reqs EXCEPT ![r] = Idle]

NoObs == [streak |-> 0, failAt |-> 0]

\* this.loginTime = null, and a storage key that is not set
NoTime == -1

\* A browser tab before the page is opened for the first time: the
\* constructor's fields (token, rememberMe, loginTime), the keys of
\* localStorage (enterpriseAuthToken, rememberMe) and of sessionStorage
\* (preservedToken, preservedTime), the screen shown, the time the next
\* callback of setInterval(.., 60000) is due, and the position of the script
NewClient ==
    [pc |-> "closed", token |-> NoToken, rememberMe |-> FALSE,
     loginTime |-> NoTime, storedToken |-> NoToken, storedRemember |-> FALSE,
     preservedToken |-> NoToken, preservedTime |-> NoTime,
     screen |-> "none", nextCheck |-> NoTime, began |-> NoTime]

\* logActivity(userId, activityType, ..): INSERT INTO activity_logs
logActivity(al, userId, activityType) == al \cup {<<userId, activityType>>}

(***************************************************************************)
(* Bootstrap: createTables + createDefaultData                             *)
(***************************************************************************)
\* createDefaultData on the tables <<us, rp, ts>>: when admin@taskflow.com has
\* no row, insert the admin, the default permissions and the sample tasks
createDefaultData(us, rp, ts) ==
    IF FindByEmail(us, ADMIN_EMAIL) = 0
    THEN [users |-> Append(us, AdminRow),
          role_permissions |->
              [r \in DOMAIN rp \cup Roles |->
                  IF r \in Roles THEN ObjectOf(DefaultPermissions[r]) ELSE rp[r]],
          tasks |->
              ts \o [i \in 1..SampleTasks |->
                        [assignee_id |-> Len(us) + 1, created_by |-> Len(us) + 1]]]
    ELSE [users |-> us, role_permissions |-> rp, tasks |-> ts]

EmptyPermissions == [r \in {} |-> NoObject]

Init ==
    LET db == createDefaultData(<<>>, EmptyPermissions, <<>>) IN
    /\ users = db.users
    /\ role_permissions = db.role_permissions
    /\ tasks = db.tasks
    /\ JWT_SECRET = 1
    /\ now = 0
    /\ ticks = 0
    /\ tokens = {}
    /\ reqs = [r \in ReqIds |-> Idle]
    /\ last = NoResponse
    /\ obs = [u \in 1..MaxUsers |-> NoObs]
    /\ activity_logs = {}
    /\ client = NewClient

dbVars == <<users, role_permissions, tasks>>
envVars == <<JWT_SECRET, now, ticks>>

Min(a, b) == IF a < b THEN a ELSE b

(***************************************************************************)
(* The clock                                                               *)
(***************************************************************************)
Tick(d) ==
    /\ ticks < MaxTicks
    /\ now' = now + d
    /\ ticks' = ticks + 1
    /\ UNCHANGED <<dbVars, JWT_SECRET, tokens, reqs, last, obs, activity_logs, client>>

(***************************************************************************)
(* POST /api/auth/login                                                    *)
(***************************************************************************)
\* user.locked_until && new Date(user.locked_until) > new Date()
Locked_Forever(user, t) == user.locked_until # NoLock

Locked(user, t) == user.locked_until # NoLock /\ user.locked_until > t

Truthy_AlsoZero(v) == v # "NULL"

\* JS truthiness of the stored is_active (1; 0 and NULL are falsy)
Truthy(v) == v = "1"

LockedUntilFor_OffByOne(newAttempts, t) ==
    IF newAttempts > LOCK_THRESHOLD THEN t + LOCKOUT_MS ELSE NoLock

\* if (newAttempts >= 5) lockedUntil = new Date(Date.now() + 15 * 60 * 1000)
LockedUntilFor(newAttempts, t) ==
    IF newAttempts >= LOCK_THRESHOLD THEN t + LOCKOUT_MS ELSE NoLock

\* UPDATE users SET login_attempts = ?, locked_until = ? WHERE id = ?
FailRow(row, newAttempts, lockedUntil) ==
    [row EXCEPT !.login_attempts = newAttempts, !.locked_until = lockedUntil]

ResetRow_KeepLock(row) ==
    [row EXCEPT !.login_attempts = 0]

\* UPDATE users SET login_attempts = 0, locked_until = NULL, last_login = ..
ResetRow(row) ==
    [row EXCEPT !.login_attempts = 0, !.locked_until = NoLock]

\* jwt.sign({userId, email}, JWT_SECRET, {expiresIn: '24h'}) at instant t
Sign(uid, email, secret, t) ==
    [userId |-> uid, email |-> email, iat |-> NowSec(t),
     exp |-> NowSec(t) + TOKEN_TTL_S, key |-> secret, T |-> t]

\* The client keeps the token it is handed while it has room for it
Keep(tok) == IF Cardinality(tokens) < MaxTokens THEN tokens \cup {tok} ELSE tokens

RefuseLocked_Counts(r, q, uid) ==
    /\ Respond(r, Response(q, 423, "Account temporarily locked", FALSE))
    /\ users' = [users EXCEPT ![uid] =
                    FailRow(@, Min(@.login_attempts + 1, MaxAttempts),
                            now + LOCKOUT_MS)]

\* return res.status(423).json(..): nothing is written
RefuseLocked(r, q, uid) ==
    /\ Respond(r, Response(q, 423, "Account temporarily locked", FALSE))
    /\ UNCHANGED users

\* SELECT the row by email; unknown email (logged), lock check, activation
\* check
LoginStart(r, e, pw) ==
    /\ FreeSlot(r)
    /\ LET uid == FindByEmail(users, e)
           q0 == [Idle EXCEPT !.kind = "login", !.email = e, !.password = pw,
                              !.at = now, !.secret = JWT_SECRET]
       IN  IF uid = 0
           THEN /\ Respond(r, Response(q0, 401, "Invalid credentials", FALSE))
                /\ UNCHANGED users
           ELSE LET user == users[uid]
                    q == [q0 EXCEPT !.target = uid,
                                    !.pwOk = Compare(pw, user.password_hash),
                                    !.snapAttempts = user.login_attempts]
                IN  IF Locked(user, now)
                    THEN RefuseLocked(r, q, uid)
                    ELSE IF ~Truthy(user.is_active)
                    THEN /\ Respond(r, Response(q, 401, "Account deactivated", FALSE))
                         /\ UNCHANGED users
                    ELSE /\ q.pwOk \/ q.snapAttempts < MaxAttempts
                         /\ reqs' = [reqs EXCEPT ![r] = [q EXCEPT !.pc = "compare"]]
                         /\ UNCHANGED <<last, users>>
    /\ activity_logs' = IF FindByEmail(users, e) = 0
                        THEN logActivity(activity_logs, 0, "login_failed")
                        ELSE activity_logs
    /\ UNCHANGED <<role_permissions, tasks, envVars, tokens, obs, client>>

\* bcrypt.compare has resolved: on a mismatch compute newAttempts, lockedUntil
LoginCompare(r) ==
    /\ reqs[r].kind = "login" /\ reqs[r].pc = "compare"
    /\ LET q == reqs[r]
           n == q.snapAttempts + 1
       IN  reqs' = [reqs EXCEPT ![r] =
                IF q.pwOk
                THEN [q EXCEPT !.pc = "ok_update"]
                ELSE [q EXCEPT !.pc = "fail_update", !.newAttempts = n,
                               !.lockedUntil = LockedUntilFor(n, now),
                               !.computedAt = now]]
    /\ UNCHANGED <<dbVars, envVars, tokens, last, obs, activity_logs, client>>

\* UPDATE users SET login_attempts = ?, locked_until = ? WHERE id = ?;
\* logActivity(user.id, 'login_failed', ..); 401
LoginFailUpdate(r) ==
    /\ reqs[r].kind = "login" /\ reqs[r].pc = "fail_update"
    /\ LET q == reqs[r]
           uid == q.target
       IN  /\ users' = [users EXCEPT ![uid] = FailRow(@, q.newAttempts, q.lockedUntil)]
           /\ obs' = [obs EXCEPT ![uid] =
                        [streak |-> Min(@.streak + 1, MaxAttempts + 1),
                         failAt |-> q.computedAt]]
           /\ Respond(r, Response(q, 401, "Invalid credentials", TRUE))
    /\ activity_logs' = logActivity(activity_logs, reqs[r].target, "login_failed")
    /\ UNCHANGED <<role_permissions, tasks, envVars, tokens, client>>

\* UPDATE users SET login_attempts = 0, locked_until = NULL ...;
\* logActivity(user.id, 'login', ..); jwt.sign; 200
LoginOkUpdate(r) ==
    /\ reqs[r].kind = "login" /\ reqs[r].pc = "ok_update"
    /\ LET q == reqs[r]
           uid == q.target
           tok == Sign(uid, q.email, JWT_SECRET, now)
       IN  /\ users' = [users EXCEPT ![uid] = ResetRow(@)]
           /\ obs' = [obs EXCEPT ![uid] = NoObs]
           /\ tokens' = Keep(tok)
           /\ Respond(r, Response([q EXCEPT !.token = tok], 200, "", TRUE))
    /\ activity_logs' = logActivity(activity_logs, reqs[r].target, "login")
    /\ UNCHANGED <<role_permissions, tasks, envVars, client>>

(***************************************************************************)
(* authenticateToken, requireAdmin                                         *)
(***************************************************************************)
Verify_IgnoreKey(tok, secret, t) == NowSec(t) < tok.exp

Verify_LateExpiry(tok, secret, t) == tok.key = secret /\ NowSec(t) <= tok.exp

\* jwt.verify(token, JWT_SECRET): the signature is the key's, and the token
\* has not expired (jsonwebtoken: floor(Date.now() / 1000) >= exp is expired)
Verify(tok, secret, t) == tok.key = secret /\ NowSec(t) < tok.exp

ActiveUser_AnyRow(us, id) == id \in 1..Len(us)

\* SELECT ... FROM users WHERE id = ? AND is_active = 1
ActiveUser(us, id) == id \in 1..Len(us) /\ us[id].is_active = "1"

Authenticate_SkipVerify(tok, us, secret, t) ==
    IF tok = NoToken
    THEN [status |-> 401, error |-> "Access token required", id |-> 0, role |-> ""]
    ELSE IF ~ActiveUser(us, tok.userId)
    THEN [status |-> 401, error |-> "Invalid token", id |-> 0, role |-> ""]
    ELSE [status |-> 0, error |-> "", id |-> tok.userId, role |-> us[tok.userId].role]

\* authenticateToken: status 0 lets the request through, with req.user
Authenticate(tok, us, secret, t) ==
    IF tok = NoToken
    THEN [status |-> 401, error |-> "Access token required", id |-> 0, role |-> ""]
    ELSE IF ~Verify(tok, secret, t)
    THEN [status |-> 403, error |-> "Invalid token", id |-> 0, role |-> ""]
    ELSE IF ~ActiveUser(us, tok.userId)
    THEN [status |-> 401, error |-> "Invalid token", id |-> 0, role |-> ""]
    ELSE [status |-> 0, error |-> "", id |-> tok.userId, role |-> us[tok.userId].role]

IsAdmin_NotEmployee(role) == role # "employee"

\* requireAdmin
IsAdmin(role) == role = "admin"

\* The request q after authenticateToken let it through
Authed(q, a) == [q EXCEPT !.actorId = a.id, !.actorRole = a.role]

(***************************************************************************)
(* PUT /api/users/:id                                                      *)
(***************************************************************************)
\* body('name').notEmpty(), body('role').isIn([...])
ValidUpdateBody(name, role) == name # UNDEF /\ role \in Roles

SelfModification_ActiveOnly(actorId, userId, role, is_active) ==
    userId = actorId /\ is_active = "false"

SelfModification_And(actorId, userId, role, is_active) ==
    userId = actorId /\ (role # "admin" /\ is_active = "false")

\* userId == req.user.id && (role !== 'admin' || is_active === false)
SelfModification(actorId, userId, role, is_active) ==
    userId = actorId /\ (role # "admin" \/ is_active = "false")

ExistingAdminOther_SameId(us, userId) ==
    \E i \in 1..Len(us) : us[i].role = "admin" /\ i = userId

\* SELECT id FROM users WHERE role = 'admin' AND id != ?
ExistingAdminOther(us, userId) ==
    \E i \in 1..Len(us) : us[i].role = "admin" /\ i # userId

\* UPDATE users SET name = ?, role = ?, ..., is_active = ? WHERE id = ?
\* (the bodies of the model repeat the row's department, position, phone and
\* avatar_url)
UpdateRows(us, userId, name, role, is_active) ==
    [i \in 1..Len(us) |->
        IF i = userId
        THEN [us[i] EXCEPT !.name = name, !.role = role,
                           !.is_active = BindBool(is_active)]
        ELSE us[i]]

\* authenticateToken, requireAdmin, the validators, the self-modification guard
UpdateUserStart(r, tok, userId, name, role, is_active) ==
    /\ FreeSlot(r)
    /\ LET a == Authenticate(tok, users, JWT_SECRET, now)
           q0 == [Idle EXCEPT !.kind = "updateUser", !.token = tok,
                              !.target = userId, !.name = name, !.role = role,
                              !.is_active = is_active, !.at = now,
                              !.secret = JWT_SECRET]
           q == Authed(q0, a)
       IN  IF a.status # 0
           THEN Respond(r, Response(q0, a.status, a.error, FALSE))
           ELSE IF ~IsAdmin(a.role)
           THEN Respond(r, Response(q, 403, "Admin access required", FALSE))
           ELSE IF ~ValidUpdateBody(name, role)
           THEN Respond(r, Response(q, 400, "validation", FALSE))
           ELSE IF SelfModification(a.id, userId, role, is_active)
           THEN Respond(r, Response(q, 400, SELF_MODIFICATION_ERROR, FALSE))
           ELSE /\ reqs' = [reqs EXCEPT ![r] =
                        [q EXCEPT !.pc = IF role = "admin" THEN "check_admin"
                                                           ELSE "update"]]
                /\ UNCHANGED last
    /\ UNCHANGED <<dbVars, envVars, tokens, obs, activity_logs, client>>

\* if (role === 'admin'): the single-administrator check
UpdateUserCheckAdmin(r) ==
    /\ reqs[r].kind = "updateUser" /\ reqs[r].pc = "check_admin"
    /\ LET q == reqs[r]
       IN  IF ExistingAdminOther(users, q.target)
           THEN Respond(r, Response(q, 400, SINGLE_ADMIN_ERROR, FALSE))
           ELSE /\ reqs' = [reqs EXCEPT ![r] = [q EXCEPT !.pc = "update"]]
                /\ UNCHANGED last
    /\ UNCHANGED <<dbVars, envVars, tokens, obs, activity_logs, client>>

\* the UPDATE, logActivity(.., 'user_updated', ..), and the 200 answer
UpdateUserWrite(r) ==
    /\ reqs[r].kind = "updateUser" /\ reqs[r].pc = "update"
    /\ LET q == reqs[r]
       IN  /\ users' = UpdateRows(users, q.target, q.name, q.role, q.is_active)
           /\ Respond(r, Response(q, 200, "", TRUE))
    /\ activity_logs' = logActivity(activity_logs, reqs[r].actorId, "user_updated")
    /\ UNCHANGED <<role_permissions, tasks, envVars, tokens, obs, client>>

(***************************************************************************)
(* POST /api/users                                                         *)
(***************************************************************************)
\* the length of the password strings the model uses
PasswordLength(p) == IF p = "short" THEN 5 ELSE 9

\* isEmail (every address of the model is one), isLength({min: 8}),
\* notEmpty, isIn([...])
ValidCreateBody(password, name, role) ==
    /\ password # UNDEF /\ PasswordLength(password) >= 8
    /\ name # UNDEF
    /\ role \in Roles

\* SELECT id FROM users WHERE role = 'admin'
ExistingAdmin(us) == \E i \in 1..Len(us) : us[i].role = "admin"

\* INSERT INTO users (email, password_hash, name, role, ...): the column
\* defaults give is_active 1, login_attempts 0, locked_until NULL (the bodies
\* of the model carry no department, position, phone or avatar_url)
NewRow(email, password, name, role) ==
    [email |-> email, password_hash |-> Hash(password), name |-> name,
     role |-> role, is_active |-> "1", login_attempts |-> 0,
     locked_until |-> NoLock, department |-> NULL, position |-> NULL,
     phone |-> NULL, avatar_url |-> DEFAULT_AVATAR]

\* the emails without a row that the creations in flight, and one for e,
\* may insert (the table grows by at most one row per such email)
PendingEmails(e) ==
    ({reqs[r].email : r \in {x \in ReqIds : reqs[x].kind = "createUser"}} \cup {e})
        \ {users[i].email : i \in UserIds}

\* authenticateToken, requireAdmin, the validators
CreateUserStart(r, tok, email, password, name, role) ==
    /\ FreeSlot(r)
    /\ LET a == Authenticate(tok, users, JWT_SECRET, now)
           q0 == [Idle EXCEPT !.kind = "createUser", !.token = tok,
                              !.email = email, !.password = password,
                              !.name = name, !.role = role, !.at = now,
                              !.secret = JWT_SECRET]
           q == Authed(q0, a)
       IN  IF a.status # 0
           THEN Respond(r, Response(q0, a.status, a.error, FALSE))
           ELSE IF ~IsAdmin(a.role)
           THEN Respond(r, Response(q, 403, "Admin access required", FALSE))
           ELSE IF ~ValidCreateBody(password, name, role)
           THEN Respond(r, Response(q, 400, "validation", FALSE))
           ELSE /\ Len(users) + Cardinality(PendingEmails(email)) <= MaxUsers
                /\ reqs' = [reqs EXCEPT ![r] =
                        [q EXCEPT !.pc = IF role = "admin" THEN "check_admin"
                                                           ELSE "check_email"]]
                /\ UNCHANGED last
    /\ UNCHANGED <<dbVars, envVars, tokens, obs, activity_logs, client>>

\* if (role === 'admin'): the single-administrator check
CreateUserCheckAdmin(r) ==
    /\ reqs[r].kind = "createUser" /\ reqs[r].pc = "check_admin"
    /\ LET q == reqs[r]
       IN  IF ExistingAdmin(users)
           THEN Respond(r, Response(q, 400, SINGLE_ADMIN_ERROR, FALSE))
           ELSE /\ reqs' = [reqs EXCEPT ![r] = [q EXCEPT !.pc = "check_email"]]
                /\ UNCHANGED last
    /\ UNCHANGED <<dbVars, envVars, tokens, obs, activity_logs, client>>

\* SELECT id FROM users WHERE email = ?
CreateUserCheckEmail(r) ==
    /\ reqs[r].kind = "createUser" /\ reqs[r].pc = "check_email"
    /\ LET q == reqs[r]
       IN  IF FindByEmail(users, q.email) # 0
           THEN Respond(r, Response(q, 400, "User already exists", FALSE))
           ELSE /\ reqs' = [reqs EXCEPT ![r] = [q EXCEPT !.pc = "insert"]]
                /\ UNCHANGED last
    /\ UNCHANGED <<dbVars, envVars, tokens, obs, activity_logs, client>>

CreateUserInsert_ProfileFails(r) ==
    /\ reqs[r].kind = "createUser" /\ reqs[r].pc = "insert"
    /\ LET q == reqs[r]
       IN  /\ users' = IF FindByEmail(users, q.email) # 0 THEN users
                       ELSE Append(users, NewRow(q.email, q.password, q.name, q.role))
           /\ Respond(r, Response(q, 500, "Failed to create user", FALSE))
    /\ UNCHANGED <<role_permissions, tasks, envVars, tokens, obs, activity_logs, client>>

\* the INSERT (email is UNIQUE: a duplicate throws, and the catch answers
\* 500), the INSERT INTO user_profiles of the new id, logActivity(..,
\* 'user_created', ..), and the 201 answer
CreateUserInsert(r) ==
    /\ reqs[r].kind = "createUser" /\ reqs[r].pc = "insert"
    /\ LET q == reqs[r]
       IN  IF FindByEmail(users, q.email) # 0
           THEN /\ Respond(r, Response(q, 500, "Failed to create user", FALSE))
                /\ UNCHANGED <<users, activity_logs>>
           ELSE /\ users' = Append(users, NewRow(q.email, q.password, q.name, q.role))
                /\ activity_logs' = logActivity(activity_logs, q.actorId, "user_created")
                /\ Respond(r, Response([q EXCEPT !.target = Len(users) + 1], 201, "", TRUE))
    /\ UNCHANGED <<role_permissions, tasks, envVars, tokens, obs, client>>

(***************************************************************************)
(* POST /api/auth/logout                                                   *)
(***************************************************************************)
\* authenticateToken
LogoutStart(r, tok) ==
    /\ FreeSlot(r)
    /\ LET a == Authenticate(tok, users, JWT_SECRET, now)
           q0 == [Idle EXCEPT !.kind = "logout", !.token = tok, !.at = now,
                              !.secret = JWT_SECRET]
       IN  IF a.status # 0
           THEN Respond(r, Response(q0, a.status, a.error, FALSE))
           ELSE /\ reqs' = [reqs EXCEPT ![r] = [Authed(q0, a) EXCEPT !.pc = "log"]]
                /\ UNCHANGED last
    /\ UNCHANGED <<dbVars, envVars, tokens, obs, activity_logs, client>>

LogoutLog_Deactivates(r) ==
    /\ reqs[r].kind = "logout" /\ reqs[r].pc = "log"
    /\ users' = [users EXCEPT ![reqs[r].actorId].is_active = "0"]
    /\ Respond(r, Response(reqs[r], 200, "", TRUE))
    /\ activity_logs' = logActivity(activity_logs, reqs[r].actorId, "logout")
    /\ UNCHANGED <<role_permissions, tasks, envVars, tokens, obs, client>>

\* logActivity(.., 'logout', ..), and the 200 answer; no other table
\* changes, and the token is not revoked
LogoutLog(r) ==
    /\ reqs[r].kind = "logout" /\ reqs[r].pc = "log"
    /\ Respond(r, Response(reqs[r], 200, "", FALSE))
    /\ activity_logs' = logActivity(activity_logs, reqs[r].actorId, "logout")
    /\ UNCHANGED <<dbVars, envVars, tokens, obs, client>>

(***************************************************************************)
(* POST /api/tasks                                                         *)
(***************************************************************************)
\* body('title').notEmpty() (priority and due_date are taken as well-formed)
ValidTaskBody(title) == title # UNDEF

TasksInFlight == Cardinality({r \in ReqIds : reqs[r].kind = "createTask"})

\* authenticateToken and the validators; no permission is looked up
CreateTaskStart(r, tok, title, assignee) ==
    /\ FreeSlot(r)
    /\ LET a == Authenticate(tok, users, JWT_SECRET, now)
           q0 == [Idle EXCEPT !.kind = "createTask", !.token = tok,
                              !.title = title, !.target = assignee,
                              !.at = now, !.secret = JWT_SECRET]
           q == Authed(q0, a)
       IN  IF a.status # 0
           THEN Respond(r, Response(q0, a.status, a.error, FALSE))
           ELSE IF ~ValidTaskBody(title)
           THEN Respond(r, Response(q, 400, "validation", FALSE))
           ELSE /\ Len(tasks) + TasksInFlight < MaxTasks
                /\ reqs' = [reqs EXCEPT ![r] = [q EXCEPT !.pc = "insert"]]
                /\ UNCHANGED last
    /\ UNCHANGED <<dbVars, envVars, tokens, obs, activity_logs, client>>

\* INSERT INTO tasks (.., assignee_id, created_by, ..),
\* logActivity(.., 'task_created', ..), and the 201 answer
CreateTaskInsert(r) ==
    /\ reqs[r].kind = "createTask" /\ reqs[r].pc = "insert"
    /\ LET q == reqs[r]
       IN  /\ tasks' = Append(tasks, [assignee_id |-> q.target,
                                      created_by |-> q.actorId])
           /\ Respond(r, Response(q, 201, "", TRUE))
    /\ activity_logs' = logActivity(activity_logs, reqs[r].actorId, "task_created")
    /\ UNCHANGED <<users, role_permissions, envVars, tokens, obs, client>>

(***************************************************************************)
(* PUT /api/permissions                                                    *)
(***************************************************************************)
\* INSERT OR REPLACE INTO role_permissions (role, permissions) VALUES (?, ?)
Upsert(rp, role, perms) ==
    [x \in DOMAIN rp \cup {role} |-> IF x = role THEN perms ELSE rp[x]]

\* authenticateToken, requireAdmin, if (!role || !permissions)
PutPermissionsStart(r, tok, role, perms) ==
    /\ FreeSlot(r)
    /\ LET a == Authenticate(tok, users, JWT_SECRET, now)
           q0 == [Idle EXCEPT !.kind = "putPermissions", !.token = tok,
                              !.role = role, !.perms = perms, !.at = now,
                              !.secret = JWT_SECRET]
           q == Authed(q0, a)
       IN  IF a.status # 0
           THEN Respond(r, Response(q0, a.status, a.error, FALSE))
           ELSE IF ~IsAdmin(a.role)
           THEN Respond(r, Response(q, 403, "Admin access required", FALSE))
           ELSE IF role = UNDEF \/ ~perms.present
           THEN Respond(r, Response(q, 400, "Role and permissions are required", FALSE))
           ELSE /\ reqs' = [reqs EXCEPT ![r] = [q EXCEPT !.pc = "upsert"]]
                /\ UNCHANGED last
    /\ UNCHANGED <<dbVars, envVars, tokens, obs, activity_logs, client>>

\* the upsert, logActivity(.., 'permissions_updated', ..), and the 200 answer
PutPermissionsWrite(r) ==
    /\ reqs[r].kind = "putPermissions" /\ reqs[r].pc = "upsert"
    /\ LET q == reqs[r]
       IN  /\ role_permissions' = Upsert(role_permissions, q.role, q.perms)
           /\ Respond(r, Response(q, 200, "", TRUE))
    /\ activity_logs' = logActivity(activity_logs, reqs[r].actorId, "permissions_updated")
    /\ UNCHANGED <<users, tasks, envVars, tokens, obs, client>>

(***************************************************************************)
(* GET /api/activities                                                     *)
(***************************************************************************)
\* if (userPermissions) { if (!permissions.view_activity_logs &&
\*                            req.user.role !== 'admin') 403 }
ActivitiesDenied(rp, role) ==
    /\ role \in DOMAIN rp
    /\ "view_activity_logs" \notin rp[role].granted
    /\ role # "admin"

\* authenticateToken
GetActivitiesStart(r, tok) ==
    /\ FreeSlot(r)
    /\ LET a == Authenticate(tok, users, JWT_SECRET, now)
           q0 == [Idle EXCEPT !.kind = "getActivities", !.token = tok,
                              !.at = now, !.secret = JWT_SECRET]
       IN  IF a.status # 0
           THEN Respond(r, Response(q0, a.status, a.error, FALSE))
           ELSE /\ reqs' = [reqs EXCEPT ![r] = [Authed(q0, a) EXCEPT !.pc = "permissions"]]
                /\ UNCHANGED last
    /\ UNCHANGED <<dbVars, envVars, tokens, obs, activity_logs, client>>

\* SELECT permissions FROM role_permissions WHERE role = ?, and the check
GetActivitiesCheck(r) ==
    /\ reqs[r].kind = "getActivities" /\ reqs[r].pc = "permissions"
    /\ LET q == reqs[r]
       IN  IF ActivitiesDenied(role_permissions, q.actorRole)
           THEN Respond(r, Response(q, 403, "Access denied", FALSE))
           ELSE /\ reqs' = [reqs EXCEPT ![r] = [q EXCEPT !.pc = "list"]]
                /\ UNCHANGED last
    /\ UNCHANGED <<dbVars, envVars, tokens, obs, activity_logs, client>>

\* SELECT ... FROM activity_logs ... LIMIT 200, and the 200 answer
GetActivitiesList(r) ==
    /\ reqs[r].kind = "getActivities" /\ reqs[r].pc = "list"
    /\ Respond(r, Response(reqs[r], 200, "", FALSE))
    /\ UNCHANGED <<dbVars, envVars, tokens, obs, activity_logs, client>>

(***************************************************************************)
(* Bootstrap statement by statement: createDefaultData on a database file  *)
(* that may be new, and a process that may be killed between statements    *)
(***************************************************************************)
\* initializeDatabase is running; the server listens once it has resolved
Booting == [Idle EXCEPT !.kind = "bootstrap", !.pc = "select"]

\* the order of Object.entries(defaultPermissions)
RoleOrder == <<"admin", "manager", "employee">>

\* SELECT id FROM users WHERE email = 'admin@taskflow.com'; if (!row) ...
BootSelect(r) ==
    /\ reqs[r].kind = "bootstrap" /\ reqs[r].pc = "select"
    /\ reqs' = [reqs EXCEPT ![r] =
                    IF FindByEmail(users, ADMIN_EMAIL) = 0
                    THEN [@ EXCEPT !.pc = "admin"]
                    ELSE Idle]
    /\ UNCHANGED <<dbVars, envVars, tokens, last, obs, activity_logs, client>>

\* INSERT INTO users (... 'admin@taskflow.com' ...)
BootInsertAdmin(r) ==
    /\ reqs[r].kind = "bootstrap" /\ reqs[r].pc = "admin"
    /\ users' = Append(users, AdminRow)
    /\ reqs' = [reqs EXCEPT ![r] = [@ EXCEPT !.pc = "permissions", !.target = Len(users) + 1]]
    /\ UNCHANGED <<role_permissions, tasks, envVars, tokens, last, obs, activity_logs, client>>

\* the roles whose default row this run of the bootstrap has not written yet
BootRolesLeft(rp) == {i \in 1..Len(RoleOrder) : RoleOrder[i] \notin DOMAIN rp}

\* INSERT OR REPLACE INTO role_permissions (role, permissions), one role per
\* statement, in the order of the object
BootInsertPermission(r) ==
    /\ reqs[r].kind = "bootstrap" /\ reqs[r].pc = "permissions"
    /\ LET left == BootRolesLeft(role_permissions)
           i == CHOOSE x \in left : \A y \in left : x <= y
       IN  /\ left # {}
           /\ role_permissions' =
                  Upsert(role_permissions, RoleOrder[i],
                         ObjectOf(DefaultPermissions[RoleOrder[i]]))
           /\ reqs' = [reqs EXCEPT ![r] =
                          IF left = {i} THEN [@ EXCEPT !.pc = "tasks"] ELSE @]
    /\ UNCHANGED <<users, tasks, envVars, tokens, last, obs, activity_logs, client>>

\* INSERT INTO tasks (...): the sample tasks, one per statement
BootInsertTask(r) ==
    /\ reqs[r].kind = "bootstrap" /\ reqs[r].pc = "tasks"
    /\ tasks' = Append(tasks, [assignee_id |-> reqs[r].target,
                               created_by |-> reqs[r].target])
    /\ reqs' = [reqs EXCEPT ![r] =
                    IF Len(tasks) + 1 >= SampleTasks THEN Idle ELSE @]
    /\ UNCHANGED <<users, role_permissions, envVars, tokens, last, obs, activity_logs, client>>

\* The process is killed and started again on the same database file: what
\* was in flight is gone, the key is drawn again, the bootstrap runs again
Crash(k) ==
    /\ reqs' = [r \in ReqIds |-> IF r = 1 THEN Booting ELSE Idle]
    /\ JWT_SECRET' = k
    /\ UNCHANGED <<dbVars, now, ticks, tokens, last, obs, activity_logs, client>>

\* The first start, on a new database file
InitBoot ==
    /\ users = <<>>
    /\ role_permissions = EmptyPermissions
    /\ tasks = <<>>
    /\ JWT_SECRET = 1
    /\ now = 0
    /\ ticks = 0
    /\ tokens = {}
    /\ reqs = [r \in ReqIds |-> IF r = 1 THEN Booting ELSE Idle]
    /\ last = NoResponse
    /\ obs = [u \in 1..MaxUsers |-> NoObs]
    /\ activity_logs = {}
    /\ client = NewClient

(***************************************************************************)
(* Process restart: initializeDatabase, a fresh JWT_SECRET                 *)
(***************************************************************************)
\* The requests in flight die with the process; the database file and the
\* tokens the clients hold survive.  JWT_SECRET is the environment's value
\* (the same key again) or a freshly drawn default (another key).
Restart(k) ==
    /\ LET db == createDefaultData(users, role_permissions, tasks)
       IN  /\ users' = db.users
           /\ role_permissions' = db.role_permissions
           /\ tasks' = db.tasks
    /\ JWT_SECRET' = k
    /\ reqs' = [r \in ReqIds |-> Idle]
    /\ UNCHANGED <<now, ticks, tokens, last, obs, activity_logs, client>>

(***************************************************************************)
(* Lockout under sequential logins: one request at a time                  *)
(***************************************************************************)
LockoutTicks == {1, LOCKOUT_MS - 1}

NextLockout ==
    \/ \E e \in {ADMIN_EMAIL, "bob@x.com"}, pw \in Passwords : LoginStart(1, e, pw)
    \/ LoginCompare(1)
    \/ LoginFailUpdate(1)
    \/ LoginOkUpdate(1)
    \/ \E d \in LockoutTicks : Tick(d)

SpecLockout == Init /\ [][NextLockout]_vars

\* C4: for one active account, the first 4 consecutive wrong-password answers
\* leave the account unlocked; from the 5th on the account is locked until
\* exactly 15 minutes after the latest failure was computed, and every login
\* attempt arriving in that window (also one with the correct password) is
\* answered 423 and lets no request through to password verification.
C4_State ==
    \A u \in UserIds :
        /\ obs[u].streak < LOCK_THRESHOLD => users[u].locked_until = NoLock
        /\ obs[u].streak >= LOCK_THRESHOLD =>
               users[u].locked_until = obs[u].failAt + LOCKOUT_MS

C4_Step ==
    \A u \in UserIds :
        (obs[u].streak >= LOCK_THRESHOLD /\ now < obs[u].failAt + LOCKOUT_MS) =>
            /\ ~(reqs'[1].pc = "compare" /\ reqs'[1].target = u)
            /\ (last' # last /\ last'.kind = "login" /\ last'.target = u) =>
                   last'.status = 423

C5_SuccessResets ==
    /\ (last.kind = "login" /\ last.status = 200) =>
           /\ users[last.target].login_attempts = 0
           /\ users[last.target].locked_until = NoLock
    /\ \A u \in UserIds : users[u].login_attempts = obs[u].streak

\* a success after 5 failures and a lockout that has run out
C5_Witness ==
    /\ last.kind = "login" /\ last.status = 200
    /\ last.snapAttempts >= LOCK_THRESHOLD
    /\ users[last.target].login_attempts = 0
    /\ users[last.target].locked_until = NoLock

(***************************************************************************)
(* Concurrent logins: two requests in flight                               *)
(***************************************************************************)
NextRace ==
    \/ \E r \in ReqIds, pw \in Passwords : LoginStart(r, ADMIN_EMAIL, pw)
    \/ \E r \in ReqIds : LoginCompare(r)
    \/ \E r \in ReqIds : LoginFailUpdate(r)
    \/ \E r \in ReqIds : LoginOkUpdate(r)

SpecRace == Init /\ [][NextRace]_vars

Quiescent == \A r \in ReqIds : reqs[r].pc = "idle"

\* C6: the failed-login increment is atomic per user row: once the concurrent
\* wrong-password requests have all been answered, the stored counter equals
\* the number of wrong-password answers given since the last success (c + N).
C6_NoLostUpdate ==
    Quiescent => \A u \in UserIds : users[u].login_attempts = obs[u].streak

\* C7: no step of an in-flight login clears or shortens a lock that is still
\* running.
C7_LockIsKept ==
    [][\A u \in UserIds :
          Locked(users[u], now) =>
              users'[u].locked_until >= users[u].locked_until]_vars

(***************************************************************************)
(* User management, one request at a time                                  *)
(***************************************************************************)
\* the password a client of the model logs in with
KnownPassword(e) == IF e = ADMIN_EMAIL THEN ADMIN_PASSWORD ELSE "Secret123"

Presented == tokens \cup {NoToken}
NameInputs == {"Bob", UNDEF}
RoleInputs == Roles \cup {UNDEF}
ActiveInputs == {"true", "false", UNDEF}

NextUsers ==
    \/ \E e \in Emails : LoginStart(1, e, KnownPassword(e))
    \/ LoginCompare(1)
    \/ LoginOkUpdate(1)
    \/ \E tok \in Presented, id \in 1..MaxUsers,
          n \in NameInputs, ro \in RoleInputs, ia \in ActiveInputs :
            UpdateUserStart(1, tok, id, n, ro, ia)
    \/ UpdateUserCheckAdmin(1)
    \/ UpdateUserWrite(1)
    \/ \E tok \in Presented, e \in Emails, ro \in {"manager", "employee"} :
            CreateUserStart(1, tok, e, "Secret123", "Bob", ro)
    \/ CreateUserCheckEmail(1)
    \/ CreateUserInsert(1)

SpecUsers == Init /\ [][NextUsers]_vars

\* a PUT /api/users/:id answered to an authenticated user about their own id
SelfUpdateAnswered ==
    /\ last.kind = "updateUser"
    /\ last.actorId # 0
    /\ last.target = last.actorId

\* C2: after any PUT /api/users/:id the administrator sends about their own
\* id, their row still has role 'admin' and is still active (is_active = 1,
\* which is what login and authenticateToken accept).
C2_SelfStaysActiveAdmin ==
    (SelfUpdateAnswered /\ last.actorRole = "admin") =>
        /\ users[last.actorId].role = "admin"
        /\ users[last.actorId].is_active = "1"

NextUsersRace ==
    \/ \E r \in ReqIds : LoginStart(r, ADMIN_EMAIL, ADMIN_PASSWORD)
    \/ \E r \in ReqIds : LoginCompare(r)
    \/ \E r \in ReqIds : LoginOkUpdate(r)
    \/ \E r \in ReqIds, tok \in tokens, id \in 1..MaxUsers, ro \in Roles :
            UpdateUserStart(r, tok, id, "Bob", ro, "true")
    \/ \E r \in ReqIds : UpdateUserCheckAdmin(r)
    \/ \E r \in ReqIds : UpdateUserWrite(r)
    \/ \E r \in ReqIds, tok \in tokens, e \in Emails, ro \in Roles :
            CreateUserStart(r, tok, e, "Secret123", "Bob", ro)
    \/ \E r \in ReqIds : CreateUserCheckAdmin(r)
    \/ \E r \in ReqIds : CreateUserCheckEmail(r)
    \/ \E r \in ReqIds : CreateUserInsert(r)

SpecUsersRace == Init /\ [][NextUsersRace]_vars

AdminIds == {u \in UserIds : users[u].role = "admin"}

\* C1: under any interleaving of user creations and updates at most one row
\* has role 'admin', and a well-formed request of the administrator that
\* asks for role 'admin' while another row holds it is answered with the
\* single-administrator error (400) and has written nothing.
C1_SingleAdmin ==
    /\ Cardinality(AdminIds) <= 1
    /\ ( /\ last.kind \in {"createUser", "updateUser"}
         /\ last.actorRole = "admin"
         /\ last.role = "admin" /\ last.name # UNDEF
         /\ \E u \in AdminIds : u # last.target ) =>
            /\ last.status = 400
            /\ last.error = SINGLE_ADMIN_ERROR
            /\ ~last.wrote

\* the promotion of an existing second user to admin is refused while another
\* request is in flight
C1_Witness ==
    /\ last.kind = "updateUser" /\ last.role = "admin"
    /\ last.target # last.actorId /\ last.target \in UserIds
    /\ last.error = SINGLE_ADMIN_ERROR
    /\ \E r \in ReqIds : reqs[r].pc # "idle"
    /\ Cardinality(AdminIds) = 1

(***************************************************************************)
(* Sessions: tokens over time and over restarts, one request at a time     *)
(***************************************************************************)
TOKEN_TTL_MS == TOKEN_TTL_S * 1000

\* half a second, the rest of a minute, two minutes, 23 h 59 min
SessionTicks == {500, 59500, 120000, TOKEN_TTL_MS - 60000}

\* a login is taken while the clients can still hold its token
NextSession ==
    \/ Cardinality(tokens) < MaxTokens /\ LoginStart(1, ADMIN_EMAIL, ADMIN_PASSWORD)
    \/ LoginCompare(1)
    \/ LoginOkUpdate(1)
    \/ \E tok \in Presented : LogoutStart(1, tok)
    \/ LogoutLog(1)
    \/ \E tok \in Presented : CreateTaskStart(1, tok, "Report", 0)
    \/ CreateTaskInsert(1)
    \/ \E d \in SessionTicks : Tick(d)
    \/ \E k \in 1..MaxKeys : Restart(k)

SpecSession == Init /\ [][NextSession]_vars

\* a protected endpoint answered a request that carried a token of the
\* current signing key, for a user who is active
ValidationAnswered ==
    /\ last.kind = "logout"
    /\ last.token # NoToken
    /\ last.token.key = last.secret
    /\ ActiveUser(users, last.token.userId)

\* C8 as claimed: a token issued at T is accepted at every time before
\* T + 24 h and rejected at every time after T + 24 h.
C8_ExpiresAt24h ==
    ValidationAnswered =>
        /\ last.at < last.token.T + TOKEN_TTL_MS => last.status = 200
        /\ last.at > last.token.T + TOKEN_TTL_MS => last.status = 403

\* C8 as amended: the token expires 24 h after T rounded down to the whole
\* second: it is accepted at every time up to T + 24 h - 1 s (T + 23 h 59 min
\* included), rejected at every time from T + 24 h on (T + 24 h 01 min
\* included), and in between accepted exactly while the clock is below
\* T - (T mod 1 s) + 24 h.
C8_ExpiresAtWholeSecond ==
    ValidationAnswered =>
        /\ last.at + 1000 <= last.token.T + TOKEN_TTL_MS => last.status = 200
        /\ last.at >= last.token.T + TOKEN_TTL_MS => last.status = 403
        /\ last.status = 200 <=>
               last.at < last.token.T - (last.token.T % 1000) + TOKEN_TTL_MS

\* a token issued off the second boundary, accepted at T + 23 h 59 min
C8_Witness ==
    /\ ValidationAnswered
    /\ last.token.T % 1000 # 0
    /\ last.at = last.token.T + TOKEN_TTL_MS - 60000
    /\ last.status = 200

\* the endpoints behind authenticateToken
ProtectedKinds ==
    {"logout", "createTask", "createUser", "updateUser", "putPermissions"}

\* C9: a token signed with a key other than the current JWT_SECRET is
\* rejected by the protected endpoints (403, no user attached, nothing
\* executed), whatever its expiry.
C9_OldKeyRejected ==
    ( /\ last.kind \in ProtectedKinds
      /\ last.token # NoToken
      /\ last.token.key # last.secret ) =>
        /\ last.status = 403
        /\ last.actorId = 0
        /\ ~last.wrote

\* an unexpired token of the previous key, presented to POST /api/tasks
\* after a restart
C9_Witness ==
    /\ last.kind = "createTask"
    /\ last.token # NoToken
    /\ last.token.key # last.secret
    /\ last.secret = JWT_SECRET
    /\ NowSec(last.at) < last.token.exp
    /\ last.status = 403
    /\ Len(tasks) = SampleTasks

(***************************************************************************)
(* Tasks and permissions, one request at a time                            *)
(***************************************************************************)
\* the stored object with one capability switched
Switched(obj, c) ==
    [obj EXCEPT !.granted = IF c \in @ THEN @ \ {c} ELSE @ \cup {c}]

PermissionInputs(role) ==
    {NoObject, ObjectOf(DefaultPermissions[role]),
     Switched(ObjectOf(DefaultPermissions[role]), "create_task")}

NextTasks ==
    \/ \E e \in {ADMIN_EMAIL, "bob@x.com"} : LoginStart(1, e, KnownPassword(e))
    \/ LoginCompare(1)
    \/ LoginOkUpdate(1)
    \/ \E tok \in Presented, ro \in {"manager", "employee"} :
            CreateUserStart(1, tok, "bob@x.com", "Secret123", "Bob", ro)
    \/ CreateUserCheckEmail(1)
    \/ CreateUserInsert(1)
    \/ \E tok \in Presented, ti \in {"Report", UNDEF}, as \in {0, 1} :
            CreateTaskStart(1, tok, ti, as)
    \/ CreateTaskInsert(1)
    \/ \E tok \in Presented, ro \in {"employee", UNDEF} :
            \E po \in PermissionInputs("employee") :
                PutPermissionsStart(1, tok, ro, po)
    \/ PutPermissionsWrite(1)

SpecTasks == Init /\ [][NextTasks]_vars

\* lookup of a capability in the stored set of a role: a missing row or a
\* missing key is a denial
Granted(role, c) ==
    role \in DOMAIN role_permissions /\ c \in role_permissions[role].granted

\* C10: while the stored permission set of 'employee' has create_task =
\* false, a well-formed POST /api/tasks of an employee is denied (403) and
\* creates no task.
C10_EmployeeCannotCreateTask ==
    ( /\ last.kind = "createTask"
      /\ last.actorRole = "employee"
      /\ ValidTaskBody(last.title)
      /\ ~Granted("employee", "create_task") ) =>
        /\ last.status = 403
        /\ ~last.wrote

(***************************************************************************)
(* The token guard: missing, malformed, foreign and expired tokens         *)
(***************************************************************************)
\* one step takes a token past its expiry
GuardTicks == {TOKEN_TTL_MS}

Offered == Presented \cup {Malformed}

NextGuard ==
    \/ Cardinality(tokens) < MaxTokens /\ LoginStart(1, ADMIN_EMAIL, ADMIN_PASSWORD)
    \/ LoginCompare(1)
    \/ LoginOkUpdate(1)
    \/ \E tok \in Offered : LogoutStart(1, tok)
    \/ LogoutLog(1)
    \/ \E tok \in Offered, ti \in {"Report", UNDEF} : CreateTaskStart(1, tok, ti, 0)
    \/ CreateTaskInsert(1)
    \/ \E d \in GuardTicks : Tick(d)
    \/ \E k \in 1..MaxKeys : Restart(k)

SpecGuard == Init /\ [][NextGuard]_vars

\* a protected endpoint answered a request whose token jwt.verify refuses
FailedValidation ==
    /\ last.kind \in ProtectedKinds
    /\ last.token # NoToken
    /\ ~Verify(last.token, last.secret, last.at)

\* C11 as claimed: a request to a protected endpoint without a token, or with
\* a token that fails validation, is answered 401 and nothing is executed.
C11_BadTokenIs401 ==
    ( \/ last.kind \in ProtectedKinds /\ last.token = NoToken
      \/ FailedValidation ) =>
        /\ last.status = 401
        /\ last.actorId = 0
        /\ ~last.wrote

\* C11 as amended: without a token the answer is 401 'Access token
\* required'; with a token that fails validation (malformed, signed with
\* another key, expired) it is 403 'Invalid token'; in both cases no user is
\* attached to the request and nothing is executed.
C11_BadTokenRejected ==
    /\ (last.kind \in ProtectedKinds /\ last.token = NoToken) =>
           /\ last.status = 401 /\ last.error = "Access token required"
           /\ last.actorId = 0
           /\ ~last.wrote
    /\ FailedValidation =>
           /\ last.status = 403 /\ last.error = "Invalid token"
           /\ last.actorId = 0
           /\ ~last.wrote

\* a well-formed POST /api/tasks with an expired token of the current key
C11_Witness ==
    /\ last.kind = "createTask" /\ ValidTaskBody(last.title)
    /\ last.token \in tokens
    /\ last.token.key = last.secret
    /\ NowSec(last.at) >= last.token.exp
    /\ last.status = 403
    /\ Len(tasks) = SampleTasks

(***************************************************************************)
(* Accounts: a second user who fails logins, is locked, deactivated and     *)
(* reactivated; one request at a time                                      *)
(***************************************************************************)
\* the second row of the users table, once it is created
BOB == 2

AccountTicks == {LOCKOUT_MS}

NextAccounts ==
    \/ LoginStart(1, ADMIN_EMAIL, ADMIN_PASSWORD)
    \/ \E pw \in Passwords : LoginStart(1, "bob@x.com", pw)
    \/ LoginStart(1, "eve@x.com", "Secret123")
    \/ LoginCompare(1)
    \/ LoginFailUpdate(1)
    \/ LoginOkUpdate(1)
    \/ \E tok \in tokens : CreateUserStart(1, tok, "bob@x.com", "Secret123", "Bob", "employee")
    \/ CreateUserCheckEmail(1)
    \/ CreateUserInsert(1)
    \/ \E tok \in tokens, ia \in ActiveInputs :
            UpdateUserStart(1, tok, BOB, "Bob", "employee", ia)
    \/ UpdateUserWrite(1)
    \/ \E tok \in tokens : tok.userId = BOB /\ LogoutStart(1, tok)
    \/ LogoutLog(1)
    \/ \E d \in AccountTicks : Tick(d)

SpecAccounts == Init /\ [][NextAccounts]_vars

\* the row of user id says active (is_active = 1)
StoredActive(id) == id \in UserIds /\ users[id].is_active = "1"

\* this step answers, on arrival, a request that presents a token jwt.verify
\* accepts, issued to a user whose row is not active
DeactivatedTokenAnswered ==
    /\ reqs[1].pc = "idle" /\ last' # last
    /\ last'.kind \in ProtectedKinds
    /\ last'.token # NoToken
    /\ Verify(last'.token, JWT_SECRET, now)
    /\ last'.token.userId \in UserIds
    /\ ~StoredActive(last'.token.userId)

\* this step answers, on arrival, a login for a user whose row is not active
DeactivatedLoginAnswered ==
    /\ reqs[1].pc = "idle" /\ last' # last
    /\ last'.kind = "login"
    /\ last'.target \in UserIds
    /\ ~StoredActive(last'.target)

\* what holds of every step whatever the login answer is: no request of a
\* deactivated user gets past authenticateToken or past the activation check
\* of login, a token request is answered 401, and a rejection by
\* authenticateToken always has one of its three causes
C12_TokenPart ==
    /\ reqs[1].pc = "idle" =>
           /\ reqs'[1].kind \in ProtectedKinds => StoredActive(reqs'[1].actorId)
           /\ reqs'[1].kind = "login" => StoredActive(reqs'[1].target)
    /\ DeactivatedTokenAnswered =>
           /\ last'.status = 401 /\ last'.error = "Invalid token"
           /\ ~last'.wrote
           /\ UNCHANGED <<dbVars, tokens>>
    /\ ( /\ reqs[1].pc = "idle" /\ last' # last
         /\ last'.kind \in ProtectedKinds /\ last'.actorId = 0 ) =>
           \/ last'.token = NoToken
           \/ ~Verify(last'.token, JWT_SECRET, now)
           \/ ~StoredActive(last'.token.userId)

\* C12 as claimed: while a user is deactivated, requests with a token issued
\* to them (unexpired, correctly signed) are answered 401, and their login
\* attempts are answered 401 'Account deactivated'.
C12_DeactivatedIsShutOut ==
    [][ /\ C12_TokenPart
        /\ DeactivatedLoginAnswered =>
               /\ last'.status = 401 /\ last'.error = "Account deactivated"
               /\ UNCHANGED <<dbVars, tokens>> ]_vars

\* C12 as amended: ... and their login attempts fail without any effect:
\* with 423 while a lockout of the account is still running, with 401
\* 'Account deactivated' otherwise (whatever the password).
C12_DeactivatedIsRefused ==
    [][ /\ C12_TokenPart
        /\ DeactivatedLoginAnswered =>
               /\ IF Locked(users[last'.target], now)
                  THEN last'.status = 423
                  ELSE last'.status = 401 /\ last'.error = "Account deactivated"
               /\ UNCHANGED <<dbVars, tokens>> ]_vars

\* a token issued to the second user before the deactivation is refused
C12_Witness ==
    /\ last.kind = "logout"
    /\ last.token \in tokens /\ last.token.userId = BOB
    /\ Verify(last.token, last.secret, last.at)
    /\ users[BOB].is_active = "0"
    /\ last.status = 401 /\ last.error = "Invalid token"

\* the outcome of the checks login makes on arrival, from the table as it is
LoginGate(e) ==
    LET uid == FindByEmail(users, e) IN
    IF uid = 0 THEN "unknown"
    ELSE IF users[uid].locked_until # NoLock /\ users[uid].locked_until > now
    THEN "locked"
    ELSE IF users[uid].is_active # "1" THEN "deactivated"
    ELSE "verify"

\* C13: login answers 401 'Invalid credentials' for an unknown email, else
\* 423 for a locked account, else 401 'Account deactivated' for an inactive
\* one (these three before, and whatever, the password); only then the
\* password decides: a mismatch is answered 401 'Invalid credentials', a
\* match 200 with a token of the user.
C13_State ==
    last.kind = "login" =>
        /\ last.status \in {200, 401, 423}
        /\ last.status = 200 =>
               /\ last.pwOk /\ last.target \in UserIds
               /\ last.token # NoToken /\ last.token.userId = last.target
               /\ last.token.email = last.email
        /\ last.status # 200 => last.token = NoToken
        /\ (last.wrote /\ last.status = 401) =>
               ~last.pwOk /\ last.error = "Invalid credentials"

C13_Step ==
    /\ (reqs[1].pc = "idle" /\ last' # last /\ last'.kind = "login") =>
           LET g == LoginGate(last'.email) IN
           /\ g # "verify"
           /\ g = "unknown" =>
                  last'.status = 401 /\ last'.error = "Invalid credentials"
           /\ g = "locked" => last'.status = 423
           /\ g = "deactivated" =>
                  last'.status = 401 /\ last'.error = "Account deactivated"
    /\ (reqs[1].pc = "idle" /\ reqs'[1].kind = "login") =>
           LoginGate(reqs'[1].email) = "verify"
    /\ (reqs[1].kind = "login" /\ last' # last) =>
           /\ last'.kind = "login"
           /\ last'.status = IF reqs[1].pwOk THEN 200 ELSE 401

C13_LoginOutcomes == [](C13_State) /\ [][C13_Step]_vars

\* a correct password for an account that is locked and deactivated: 423
C13_Witness ==
    /\ last.kind = "login" /\ last.pwOk /\ last.target = BOB
    /\ users[BOB].is_active = "0"
    /\ users[BOB].locked_until > last.at
    /\ last.status = 423

(***************************************************************************)
(* Logout (checked over the sessions of SpecSession)                       *)
(***************************************************************************)
\* this step answers a logout with success
LogoutSucceeds ==
    /\ last' # last
    /\ last'.kind = "logout" /\ last'.status = 200

\* the latest answer is a successful logout, and this step is the answer of
\* authenticateToken to the next request, which presents the same token
RejectedAfterLogout ==
    /\ last.kind = "logout" /\ last.status = 200
    /\ reqs[1].pc = "idle" /\ last' # last
    /\ last'.kind \in ProtectedKinds
    /\ last'.token = last.token
    /\ last'.actorId = 0

\* C14: a successful logout changes no table but activity_logs, which gets
\* its 'logout' row, not the signing key and not the tokens in circulation, and a later request with the same token is
\* refused by authenticateToken only for the reasons any token is refused:
\* it has expired, the key has changed, or the user is not active.
C14_LogoutKeepsToken ==
    [][ /\ LogoutSucceeds =>
               /\ UNCHANGED <<dbVars, JWT_SECRET, tokens>>
               /\ activity_logs' = activity_logs \cup {<<last'.actorId, "logout">>}
               /\ ~last'.wrote
        /\ RejectedAfterLogout =>
               \/ NowSec(now) >= last.token.exp
               \/ last.token.key # JWT_SECRET
               \/ users[last.token.userId].is_active # "1" ]_vars

\* after the logout, and later, POST /api/tasks lets the same token through
C14_Witness ==
    /\ last.kind = "logout" /\ last.status = 200
    /\ reqs[1].kind = "createTask" /\ reqs[1].pc = "insert"
    /\ reqs[1].token = last.token
    /\ reqs[1].actorId = last.token.userId
    /\ reqs[1].at > last.at

(***************************************************************************)
(* What a caller who submits wrong passwords observes (over SpecLockout,   *)
(* where admin@taskflow.com exists and bob@x.com does not)                 *)
(***************************************************************************)
\* status and error body of an answer
Observed(resp) == [status |-> resp.status, error |-> resp.error]

\* if (!user): what a login for an email without a row is answered
UnknownAnswer == [status |-> 401, error |-> "Invalid credentials"]

\* C15: a caller submitting wrong passwords observes the same answers whether
\* or not the email exists: an unknown email is always answered with
\* UnknownAnswer, so every answer to a wrong password for a known email must
\* be UnknownAnswer too.
C15_Indistinguishable ==
    (last.kind = "login" /\ ~last.pwOk) => Observed(last) = UnknownAnswer

(***************************************************************************)
(* The permission store under PUT /api/permissions, one request at a time  *)
(***************************************************************************)
\* a permissions object that carries one capability only, and the object {}
OneKeyObject == [present |-> TRUE, keys |-> {"create_task"}, granted |-> {"create_task"}]
EmptyObject == [present |-> TRUE, keys |-> {}, granted |-> {}]

PermissionBodies(role) == PermissionInputs(role) \cup {OneKeyObject, EmptyObject}

NextPermissions ==
    \/ LoginStart(1, ADMIN_EMAIL, ADMIN_PASSWORD)
    \/ LoginCompare(1)
    \/ LoginOkUpdate(1)
    \/ \E tok \in Presented, ro \in Roles :
            \E po \in PermissionBodies(ro) : PutPermissionsStart(1, tok, ro, po)
    \/ \E tok \in Presented :
            PutPermissionsStart(1, tok, UNDEF, ObjectOf(DefaultPermissions["employee"]))
    \/ PutPermissionsWrite(1)

SpecPermissions == Init /\ [][NextPermissions]_vars

\* C16: each of the three roles has a stored permission set with an entry
\* for every one of the 11 capabilities.
C16_EveryRoleComplete ==
    \A ro \in Roles :
        /\ ro \in DOMAIN role_permissions
        /\ role_permissions[ro].present
        /\ role_permissions[ro].keys = Capabilities

(***************************************************************************)
(* From the first start on: the bootstrap in steps, crashes, and the       *)
(* requests of the administrator and of an employee                        *)
(***************************************************************************)
NextBoot ==
    \/ BootSelect(1)
    \/ BootInsertAdmin(1)
    \/ BootInsertPermission(1)
    \/ BootInsertTask(1)
    \/ \E k \in 1..MaxKeys : Crash(k)
    \/ \E e \in {ADMIN_EMAIL, "bob@x.com"} : LoginStart(1, e, KnownPassword(e))
    \/ LoginCompare(1)
    \/ LoginOkUpdate(1)
    \/ \E tok \in tokens : CreateUserStart(1, tok, "bob@x.com", "Secret123", "Bob", "employee")
    \/ CreateUserCheckEmail(1)
    \/ CreateUserInsert(1)
    \/ \E tok \in Presented : GetActivitiesStart(1, tok)
    \/ GetActivitiesCheck(1)
    \/ GetActivitiesList(1)

SpecBoot == InitBoot /\ [][NextBoot]_vars

\* C17: a non-admin user whose role has no row in role_permissions is denied
\* GET /api/activities (the lookup defaults to all-false).
C17_NoRowIsDenied ==
    ( /\ last.kind = "getActivities"
      /\ last.actorId # 0
      /\ last.actorRole # "admin"
      /\ last.actorRole \notin DOMAIN role_permissions ) =>
        last.status = 403

(***************************************************************************)
(* Email uniqueness (over the interleavings of SpecUsersRace)              *)
(***************************************************************************)
\* C18: no two rows share an email, and a well-formed POST /api/users of the
\* administrator whose email is that of an existing row, and which did not
\* itself insert that row, is answered 400 and has inserted nothing.
C18_DuplicateIs400 ==
    /\ \A i, j \in UserIds : users[i].email = users[j].email => i = j
    /\ ( /\ last.kind = "createUser"
         /\ last.actorRole = "admin"
         /\ FindByEmail(users, last.email) # 0
         /\ last.status # 201 ) =>
            /\ last.status = 400
            /\ ~last.wrote

(***************************************************************************)
(* The administrator-only endpoints                                        *)
(***************************************************************************)
\* GET /api/users: authenticateToken, requireAdmin
ListUsersStart(r, tok) ==
    /\ FreeSlot(r)
    /\ LET a == Authenticate(tok, users, JWT_SECRET, now)
           q0 == [Idle EXCEPT !.kind = "listUsers", !.token = tok, !.at = now,
                              !.secret = JWT_SECRET]
           q == Authed(q0, a)
       IN  IF a.status # 0
           THEN Respond(r, Response(q0, a.status, a.error, FALSE))
           ELSE IF ~IsAdmin(a.role)
           THEN Respond(r, Response(q, 403, "Admin access required", FALSE))
           ELSE /\ reqs' = [reqs EXCEPT ![r] = [q EXCEPT !.pc = "select"]]
                /\ UNCHANGED last
    /\ UNCHANGED <<dbVars, envVars, tokens, obs, activity_logs, client>>

\* SELECT ... FROM users u ORDER BY u.created_at DESC, and the 200 answer
ListUsersSelect(r) ==
    /\ reqs[r].kind = "listUsers" /\ reqs[r].pc = "select"
    /\ Respond(r, Response(reqs[r], 200, "", FALSE))
    /\ UNCHANGED <<dbVars, envVars, tokens, obs, activity_logs, client>>

\* GET /api/permissions: authenticateToken, requireAdmin
GetPermissionsStart(r, tok) ==
    /\ FreeSlot(r)
    /\ LET a == Authenticate(tok, users, JWT_SECRET, now)
           q0 == [Idle EXCEPT !.kind = "getPermissions", !.token = tok,
                              !.at = now, !.secret = JWT_SECRET]
           q == Authed(q0, a)
       IN  IF a.status # 0
           THEN Respond(r, Response(q0, a.status, a.error, FALSE))
           ELSE IF ~IsAdmin(a.role)
           THEN Respond(r, Response(q, 403, "Admin access required", FALSE))
           ELSE /\ reqs' = [reqs EXCEPT ![r] = [q EXCEPT !.pc = "select"]]
                /\ UNCHANGED last
    /\ UNCHANGED <<dbVars, envVars, tokens, obs, activity_logs, client>>

\* SELECT * FROM role_permissions, and the 200 answer
GetPermissionsSelect(r) ==
    /\ reqs[r].kind = "getPermissions" /\ reqs[r].pc = "select"
    /\ Respond(r, Response(reqs[r], 200, "", FALSE))
    /\ UNCHANGED <<dbVars, envVars, tokens, obs, activity_logs, client>>

\* !newPassword || newPassword.length < 8
ValidNewPassword(newPassword) ==
    newPassword # UNDEF /\ PasswordLength(newPassword) >= 8

\* UPDATE users SET password_hash = ?, ... WHERE id = ? (no row: no change)
SetPassword(us, userId, newPassword) ==
    [i \in 1..Len(us) |->
        IF i = userId THEN [us[i] EXCEPT !.password_hash = Hash(newPassword)]
                      ELSE us[i]]

\* PUT /api/users/:id/password: authenticateToken, requireAdmin, the length
\* check
ChangePasswordStart(r, tok, userId, newPassword) ==
    /\ FreeSlot(r)
    /\ LET a == Authenticate(tok, users, JWT_SECRET, now)
           q0 == [Idle EXCEPT !.kind = "changePassword", !.token = tok,
                              !.target = userId, !.password = newPassword,
                              !.at = now, !.secret = JWT_SECRET]
           q == Authed(q0, a)
       IN  IF a.status # 0
           THEN Respond(r, Response(q0, a.status, a.error, FALSE))
           ELSE IF ~IsAdmin(a.role)
           THEN Respond(r, Response(q, 403, "Admin access required", FALSE))
           ELSE IF ~ValidNewPassword(newPassword)
           THEN Respond(r, Response(q, 400, "Password must be at least 8 characters", FALSE))
           ELSE /\ reqs' = [reqs EXCEPT ![r] = [q EXCEPT !.pc = "update"]]
                /\ UNCHANGED last
    /\ UNCHANGED <<dbVars, envVars, tokens, obs, activity_logs, client>>

\* bcrypt.hash, the UPDATE, logActivity(.., 'password_changed', ..), and the
\* 200 answer
ChangePasswordWrite(r) ==
    /\ reqs[r].kind = "changePassword" /\ reqs[r].pc = "update"
    /\ LET q == reqs[r]
       IN  /\ users' = SetPassword(users, q.target, q.password)
           /\ Respond(r, Response(q, 200, "", TRUE))
    /\ activity_logs' = logActivity(activity_logs, reqs[r].actorId, "password_changed")
    /\ UNCHANGED <<role_permissions, tasks, envVars, tokens, obs, client>>

\* the administrator and a second user, of changing role, use the
\* administrator-only endpoints, two requests at a time; a client logs in
\* with the password its row holds
FullObject == ObjectOf([c \in Capabilities |-> TRUE])

NextAdmin ==
    \/ \E r \in ReqIds, e \in {ADMIN_EMAIL, "bob@x.com"}, pw \in Passwords :
            /\ FindByEmail(users, e) # 0
            /\ Compare(pw, users[FindByEmail(users, e)].password_hash)
            /\ LoginStart(r, e, pw)
    \/ \E r \in ReqIds : LoginCompare(r)
    \/ \E r \in ReqIds : LoginOkUpdate(r)
    \/ \E r \in ReqIds, tok \in tokens : ListUsersStart(r, tok)
    \/ \E r \in ReqIds : ListUsersSelect(r)
    \/ \E r \in ReqIds, tok \in tokens :
            CreateUserStart(r, tok, "bob@x.com", "Secret123", "Bob", "manager")
    \/ \E r \in ReqIds : CreateUserCheckEmail(r)
    \/ \E r \in ReqIds : CreateUserInsert(r)
    \/ \E r \in ReqIds, tok \in tokens, id \in 1..MaxUsers, ro \in Roles :
            UpdateUserStart(r, tok, id, "Bob", ro, "true")
    \/ \E r \in ReqIds : UpdateUserCheckAdmin(r)
    \/ \E r \in ReqIds : UpdateUserWrite(r)
    \/ \E r \in ReqIds, tok \in tokens, id \in 1..MaxUsers,
          pw \in {"short", "Secret123"} : ChangePasswordStart(r, tok, id, pw)
    \/ \E r \in ReqIds : ChangePasswordWrite(r)
    \/ \E r \in ReqIds, tok \in tokens : GetPermissionsStart(r, tok)
    \/ \E r \in ReqIds : GetPermissionsSelect(r)
    \/ \E r \in ReqIds, tok \in tokens :
            PutPermissionsStart(r, tok, "manager", FullObject)
    \/ \E r \in ReqIds : PutPermissionsWrite(r)

SpecAdmin == Init /\ [][NextAdmin]_vars

AdminKinds ==
    {"listUsers", "createUser", "updateUser", "changePassword",
     "getPermissions", "putPermissions"}

\* the row of user id says 'admin'
StoredAdmin(id) == id \in UserIds /\ users[id].role = "admin"

C19_State ==
    \A r \in ReqIds :
        (reqs[r].kind \in AdminKinds /\ reqs[r].pc # "idle") =>
            StoredAdmin(reqs[r].actorId)

C19_Step ==
    /\ ( /\ last' # last
         /\ last'.kind \in AdminKinds
         /\ last'.actorId \in UserIds
         /\ ~StoredAdmin(last'.actorId) ) =>
            /\ last'.status = 403
            /\ last'.error = "Admin access required"
            /\ dbVars' = dbVars
    /\ ( /\ last' # last
         /\ last'.kind \in AdminKinds
         /\ (last'.status \in {200, 201} \/ dbVars' # dbVars) ) =>
            StoredAdmin(last'.actorId)

\* C19: the permission read/write endpoints and the user-management
\* endpoints (list, create, update, change a password) run, from the
\* administrator check to their last statement, only for an acting user whose
\* stored role is 'admin'; an authenticated user whose stored role is not
\* 'admin' is answered 403 'Admin access required' and no table changes,
\* whatever the stored permission set of that role.
C19_AdminOnly == [](C19_State) /\ [][C19_Step]_vars

\* a manager, whose role has every capability stored as granted, was refused
\* a password change and a permission write
C19_Witness ==
    /\ last.kind \in {"changePassword", "putPermissions"}
    /\ last.actorRole = "manager"
    /\ last.status = 403
    /\ "manager" \in DOMAIN role_permissions
    /\ role_permissions["manager"].granted = Capabilities

(***************************************************************************)
(* Failures: logins and creations of a user on all their inputs, the other *)
(* handlers on their failing inputs; two creations may overlap, and        *)
(* overlap the other requests                                              *)
(***************************************************************************)
NextFailures ==
    \/ \E pw \in Passwords : LoginStart(1, ADMIN_EMAIL, pw)
    \/ \E e \in {"bob@x.com", "eve@x.com"} : LoginStart(1, e, "Secret123")
    \/ LoginCompare(1)
    \/ LoginFailUpdate(1)
    \/ LoginOkUpdate(1)
    \/ \E r \in ReqIds, tok \in Presented, pw \in {"short", "Secret123"},
          ro \in {"admin", "employee"} :
            CreateUserStart(r, tok, "bob@x.com", pw, "Bob", ro)
    \/ \E r \in ReqIds : CreateUserCheckAdmin(r)
    \/ \E r \in ReqIds : CreateUserCheckEmail(r)
    \/ \E r \in ReqIds : CreateUserInsert(r)
    \/ \E tok \in Presented : UpdateUserStart(1, tok, 1, "Admin", "employee", "true")
    \/ \E tok \in Presented : UpdateUserStart(1, tok, BOB, "Bob", "admin", "true")
    \/ \E tok \in Presented : UpdateUserStart(1, tok, BOB, "Bob", UNDEF, "true")
    \/ UpdateUserCheckAdmin(1)
    \/ \E tok \in Presented : ChangePasswordStart(1, tok, BOB, "short")
    \/ \E tok \in Presented : PutPermissionsStart(1, tok, UNDEF, EmptyObject)
    \/ \E tok \in Presented : CreateTaskStart(1, tok, UNDEF, 0)
    \/ \E tok \in Presented : GetActivitiesStart(1, tok)
    \/ GetActivitiesCheck(1)
    \/ GetActivitiesList(1)

SpecFailures == Init /\ [][NextFailures]_vars

\* this step sends an answer that reports a failure
FailureAnswered == last' # last /\ last'.status >= 400

\* this step answers a login whose password bcrypt.compare refused
WrongPasswordAnswered ==
    /\ last'.kind = "login" /\ last'.target \in UserIds /\ ~last'.pwOk
    /\ last'.error = "Invalid credentials"

\* the users table differs at most in login_attempts and locked_until of row id
OnlyCounterOf(id) ==
    /\ Len(users') = Len(users)
    /\ \A i \in UserIds :
           IF i = id
           THEN [users'[i] EXCEPT !.login_attempts = 0, !.locked_until = NoLock]
                    = [users[i] EXCEPT !.login_attempts = 0, !.locked_until = NoLock]
           ELSE users'[i] = users[i]

BootstrapDone == \A r \in ReqIds : reqs[r].kind # "bootstrap"

\* C21: once the bootstrap has run, every role has a stored permission set
\* (the built-in default where none was stored before, nothing in SpecBoot
\* writes another one), and there is exactly one administrator row.
C21_BootstrapInitializes ==
    BootstrapDone =>
        /\ \A ro \in Roles :
               /\ ro \in DOMAIN role_permissions
               /\ role_permissions[ro] = ObjectOf(DefaultPermissions[ro])
        /\ Cardinality({i \in UserIds : users[i].role = "admin"}) = 1

(***************************************************************************)
(* The administrator row (over the interleavings of SpecUsersRace)         *)
(***************************************************************************)
\* C22: in every state after the bootstrap exactly one row has role 'admin':
\* no sequence or interleaving of POST /api/users and PUT /api/users/:id
\* leaves the table without an administrator, or with two.
C22_ExactlyOneAdmin ==
    \E a \in UserIds :
        /\ users[a].role = "admin"
        /\ \A u \in UserIds : users[u].role = "admin" => u = a

\* the administrator asked for another role for the own row, while a second
\* user exists and another request is in flight, and was refused
C22_Witness ==
    /\ last.kind = "updateUser" /\ last.target = last.actorId
    /\ last.role \in Roles \ {"admin"}
    /\ last.status = 400 /\ last.error = SELF_MODIFICATION_ERROR
    /\ Len(users) = MaxUsers
    /\ \E r \in ReqIds : reqs[r].kind = "updateUser" /\ reqs[r].pc = "update"

(***************************************************************************)
(* Reading, changing and deleting tasks                                    *)
(***************************************************************************)
\* the place of a deleted row: ids are AUTOINCREMENT and never used again
NoTask == [assignee_id |-> -1, created_by |-> -1]

\* SELECT * FROM tasks WHERE id = ? finds a row
TaskExists(ts, id) == id \in 1..Len(ts) /\ ts[id] # NoTask

\* the rows of tasks, and those of WHERE (assignee_id = ? OR created_by = ?)
TaskRows(ts) ==
    {[id |-> i, assignee_id |-> ts[i].assignee_id, created_by |-> ts[i].created_by] :
        i \in {j \in 1..Len(ts) : ts[j] # NoTask}}

OwnRows(ts, userId) ==
    {t \in TaskRows(ts) : t.assignee_id = userId \/ t.created_by = userId}

\* if (req.user.role === 'employee') whereClauses.push(..)
VisibleRows(ts, role, userId) ==
    IF role = "employee" THEN OwnRows(ts, userId) ELSE TaskRows(ts)

\* ORDER BY t.created_at DESC LIMIT 5
RECENT_LIMIT == 5

Recent(S) == {t \in S : Cardinality({u \in S : u.id > t.id}) < RECENT_LIMIT}

MayUpdate_Anyone(role, userId, task) == TRUE

\* req.user.role === 'employee' && existingTask.assignee_id !== req.user.id
\* && existingTask.created_by !== req.user.id is a 403
MayUpdate(role, userId, task) ==
    ~(role = "employee" /\ task.assignee_id # userId /\ task.created_by # userId)

\* req.user.role === 'employee' && existingTask.created_by !== req.user.id
\* is a 403
MayDelete(role, userId, task) ==
    ~(role = "employee" /\ task.created_by # userId)

\* GET /api/tasks without query filters: authenticateToken
ListTasksStart(r, tok) ==
    /\ FreeSlot(r)
    /\ LET a == Authenticate(tok, users, JWT_SECRET, now)
           q0 == [Idle EXCEPT !.kind = "listTasks", !.token = tok, !.at = now,
                              !.secret = JWT_SECRET]
       IN  IF a.status # 0
           THEN Respond(r, Response(q0, a.status, a.error, FALSE))
           ELSE /\ reqs' = [reqs EXCEPT ![r] = [Authed(q0, a) EXCEPT !.pc = "select"]]
                /\ UNCHANGED last
    /\ UNCHANGED <<dbVars, envVars, tokens, obs, activity_logs, client>>

\* the SELECT and the 200 answer
ListTasksSelect(r) ==
    /\ reqs[r].kind = "listTasks" /\ reqs[r].pc = "select"
    /\ LET q == reqs[r]
       IN  Respond(r, Response([q EXCEPT !.rows = VisibleRows(tasks, q.actorRole, q.actorId)],
                               200, "", FALSE))
    /\ UNCHANGED <<dbVars, envVars, tokens, obs, activity_logs, client>>

\* PUT /api/tasks/:id: authenticateToken
UpdateTaskStart(r, tok, taskId, title, assignee) ==
    /\ FreeSlot(r)
    /\ LET a == Authenticate(tok, users, JWT_SECRET, now)
           q0 == [Idle EXCEPT !.kind = "updateTask", !.token = tok,
                              !.target = taskId, !.title = title,
                              !.assignee_id = assignee, !.at = now,
                              !.secret = JWT_SECRET]
       IN  IF a.status # 0
           THEN Respond(r, Response(q0, a.status, a.error, FALSE))
           ELSE /\ reqs' = [reqs EXCEPT ![r] = [Authed(q0, a) EXCEPT !.pc = "select"]]
                /\ UNCHANGED last
    /\ UNCHANGED <<dbVars, envVars, tokens, obs, activity_logs, client>>

\* SELECT * FROM tasks WHERE id = ?; 404; the employee check
UpdateTaskCheck(r) ==
    /\ reqs[r].kind = "updateTask" /\ reqs[r].pc = "select"
    /\ LET q == reqs[r]
       IN  IF ~TaskExists(tasks, q.target)
           THEN Respond(r, Response(q, 404, "Task not found", FALSE))
           ELSE IF ~MayUpdate(q.actorRole, q.actorId, tasks[q.target])
           THEN Respond(r, Response(q, 403, "Access denied", FALSE))
           ELSE /\ reqs' = [reqs EXCEPT ![r].pc = "update"]
                /\ UNCHANGED last
    /\ UNCHANGED <<dbVars, envVars, tokens, obs, activity_logs, client>>

\* UPDATE tasks SET title = ?, .., assignee_id = ?, .. WHERE id = ?; title is
\* NOT NULL, so a body without title fails the statement (500); a row deleted
\* in the meantime is not updated
UpdateTaskWrite(r) ==
    /\ reqs[r].kind = "updateTask" /\ reqs[r].pc = "update"
    /\ LET q == reqs[r]
       IN  IF q.title = UNDEF
           THEN /\ Respond(r, Response(q, 500, "Failed to update task", FALSE))
                /\ UNCHANGED tasks
           ELSE /\ tasks' = IF TaskExists(tasks, q.target)
                            THEN [tasks EXCEPT ![q.target].assignee_id = q.assignee_id]
                            ELSE tasks
                /\ reqs' = [reqs EXCEPT ![r].pc = "reselect"]
                /\ UNCHANGED last
    /\ UNCHANGED <<users, role_permissions, envVars, tokens, obs, activity_logs, client>>

\* the SELECT of the updated task; logActivity(.., 'task_updated'); 200
UpdateTaskSelect(r) ==
    /\ reqs[r].kind = "updateTask" /\ reqs[r].pc = "reselect"
    /\ Respond(r, Response(reqs[r], 200, "", TRUE))
    /\ activity_logs' = logActivity(activity_logs, reqs[r].actorId, "task_updated")
    /\ UNCHANGED <<dbVars, envVars, tokens, obs, client>>

\* DELETE /api/tasks/:id: authenticateToken
DeleteTaskStart(r, tok, taskId) ==
    /\ FreeSlot(r)
    /\ LET a == Authenticate(tok, users, JWT_SECRET, now)
           q0 == [Idle EXCEPT !.kind = "deleteTask", !.token = tok,
                              !.target = taskId, !.at = now,
                              !.secret = JWT_SECRET]
       IN  IF a.status # 0
           THEN Respond(r, Response(q0, a.status, a.error, FALSE))
           ELSE /\ reqs' = [reqs EXCEPT ![r] = [Authed(q0, a) EXCEPT !.pc = "select"]]
                /\ UNCHANGED last
    /\ UNCHANGED <<dbVars, envVars, tokens, obs, activity_logs, client>>

\* SELECT * FROM tasks WHERE id = ?; 404; the employee check
DeleteTaskCheck(r) ==
    /\ reqs[r].kind = "deleteTask" /\ reqs[r].pc = "select"
    /\ LET q == reqs[r]
       IN  IF ~TaskExists(tasks, q.target)
           THEN Respond(r, Response(q, 404, "Task not found", FALSE))
           ELSE IF ~MayDelete(q.actorRole, q.actorId, tasks[q.target])
           THEN Respond(r, Response(q, 403, "Access denied", FALSE))
           ELSE /\ reqs' = [reqs EXCEPT ![r].pc = "delete"]
                /\ UNCHANGED last
    /\ UNCHANGED <<dbVars, envVars, tokens, obs, activity_logs, client>>

\* DELETE FROM tasks WHERE id = ?; logActivity(.., 'task_deleted'); 200
DeleteTaskWrite(r) ==
    /\ reqs[r].kind = "deleteTask" /\ reqs[r].pc = "delete"
    /\ tasks' = IF TaskExists(tasks, reqs[r].target)
                THEN [tasks EXCEPT ![reqs[r].target] = NoTask]
                ELSE tasks
    /\ Respond(r, Response(reqs[r], 200, "", TRUE))
    /\ activity_logs' = logActivity(activity_logs, reqs[r].actorId, "task_deleted")
    /\ UNCHANGED <<users, role_permissions, envVars, tokens, obs, client>>

(***************************************************************************)
(* GET /api/dashboard/stats                                                *)
(***************************************************************************)
\* authenticateToken
GetStatsStart(r, tok) ==
    /\ FreeSlot(r)
    /\ LET a == Authenticate(tok, users, JWT_SECRET, now)
           q0 == [Idle EXCEPT !.kind = "getStats", !.token = tok, !.at = now,
                              !.secret = JWT_SECRET]
       IN  IF a.status # 0
           THEN Respond(r, Response(q0, a.status, a.error, FALSE))
           ELSE /\ reqs' = [reqs EXCEPT ![r] = [Authed(q0, a) EXCEPT !.pc = "select"]]
                /\ UNCHANGED last
    /\ UNCHANGED <<dbVars, envVars, tokens, obs, activity_logs, client>>

\* SELECT COUNT(*) as total_tasks, .. FROM tasks [WHERE assignee_id = ? OR
\* created_by = ?]
GetStatsCount(r) ==
    /\ reqs[r].kind = "getStats" /\ reqs[r].pc = "select"
    /\ LET q == reqs[r]
       IN  reqs' = [reqs EXCEPT ![r] =
              [q EXCEPT !.pc = "recent",
                        !.total = Cardinality(VisibleRows(tasks, q.actorRole, q.actorId))]]
    /\ UNCHANGED <<dbVars, envVars, tokens, last, obs, activity_logs, client>>

\* the SELECT of recentTasks, and the 200 answer
GetStatsSelect(r) ==
    /\ reqs[r].kind = "getStats" /\ reqs[r].pc = "recent"
    /\ LET q == reqs[r]
       IN  Respond(r, Response([q EXCEPT !.rows =
                                   Recent(VisibleRows(tasks, q.actorRole, q.actorId))],
                               200, "", FALSE))
    /\ UNCHANGED <<dbVars, envVars, tokens, obs, activity_logs, client>>

(***************************************************************************)
(* The browser client: class EnterpriseTaskFlow in one tab.  In the        *)
(* specification of the client the variable last is the answer on its way  *)
(* to the client: a request is sent while no answer is waiting, and the     *)
(* client takes the answer away when it resumes after the await.            *)
(***************************************************************************)
INTERVAL_MS == 60000           \* setInterval(.., 60000)
PRESERVE_MS == 5000            \* timeDiff < 5000
SESSION_HOURS == 24            \* hours >= 24
HOUR_MS == 3600000             \* 1000 * 60 * 60

\* a callback of the setInterval of setupSessionManagement is due
TimerDue == client.pc # "closed" /\ client.nextCheck <= now

\* the latest time, not after t, at which the interval timer fires
LastFiring(c, t) == c.nextCheck + INTERVAL_MS * ((t - c.nextCheck) \div INTERVAL_MS)

\* the client is between two event handlers, none is due, no call is pending
ClientReady == client.pc = "ready" /\ ~TimerDue

\* the answer to the call the client awaits has arrived
Answered(kind) == reqs[1].pc = "idle" /\ last # NoResponse /\ last.kind = kind

\* the request of the call the client awaits has not been sent yet
Unsent == reqs[1].pc = "idle" /\ last = NoResponse

\* throw new Error(result.error || `HTTP ${response.status}`)
ApiMessage(resp) ==
    IF resp.error # "" THEN resp.error
    ELSE CASE resp.status = 400 -> "HTTP 400"
           [] resp.status = 401 -> "HTTP 401"
           [] resp.status = 403 -> "HTTP 403"
           [] OTHER -> "HTTP 500"

\* error.message.includes('401') || error.message.includes('403'): of the
\* messages of the model, the server's error texts carry no digits
IncludesAuthCode(msg) == msg \in {"HTTP 401", "HTTP 403"}

\* response.ok
Ok(resp) == resp.status \in {200, 201}

\* handleLogout up to its await: the logout call is to be sent
StartLogout(c) == [c EXCEPT !.pc = "logout:call"]

\* DOMContentLoaded and load: the constructor reads localStorage,
\* initializeApp registers the interval and either validates the stored token
\* or shows the login screen and drops the stored token; the load handler
\* takes over a session preserved less than 5 s ago (and more than 0 ms:
\* timeDiff && ..) and clears the preserved keys
ClientOpen ==
    /\ client.pc = "closed"
    /\ LET token0 == client.storedToken
           validate == token0 # NoToken /\ client.storedRemember
           timeDiff == IF client.preservedTime = NoTime THEN 0
                       ELSE now - client.preservedTime
           restore == /\ timeDiff # 0 /\ timeDiff < PRESERVE_MS
                      /\ client.preservedToken # NoToken
           token1 == IF restore THEN client.preservedToken ELSE token0
       IN  client' =
             [pc |-> IF validate THEN "validate:call" ELSE "ready",
              token |-> token1,
              rememberMe |-> client.storedRemember,
              loginTime |-> NoTime,
              storedToken |-> IF validate THEN client.storedToken ELSE NoToken,
              storedRemember |-> client.storedRemember,
              preservedToken |-> NoToken,
              preservedTime |-> NoTime,
              screen |-> IF restore THEN "app"
                         ELSE IF validate THEN "none" ELSE "login",
              nextCheck |-> now + INTERVAL_MS,
              began |-> IF restore \/ validate THEN now ELSE NoTime]
    /\ UNCHANGED <<dbVars, envVars, tokens, reqs, last, obs, activity_logs>>

\* the page is left (reload, navigation): beforeunload preserves the session
\* in sessionStorage; with closeTab the tab is closed and its sessionStorage
\* is gone.  The instance and its timer end.
ClientUnload(closeTab) ==
    /\ ClientReady
    /\ client' =
          [NewClient EXCEPT
              !.storedToken = client.storedToken,
              !.storedRemember = client.storedRemember,
              !.preservedToken =
                  IF closeTab \/ client.token = NoToken THEN client.preservedToken
                  ELSE client.token,
              !.preservedTime =
                  IF closeTab \/ client.token = NoToken THEN client.preservedTime
                  ELSE now]
    /\ UNCHANGED <<dbVars, envVars, tokens, reqs, last, obs, activity_logs>>

\* handleRememberMe
ClientRememberMe ==
    /\ ClientReady /\ client.screen = "login"
    /\ client' = [client EXCEPT !.rememberMe = ~@, !.storedRemember = ~client.rememberMe]
    /\ UNCHANGED <<dbVars, envVars, tokens, reqs, last, obs, activity_logs>>

\* handleLogin up to its await
ClientLoginSubmit ==
    /\ ClientReady /\ client.screen = "login"
    /\ Unsent
    /\ client' = [client EXCEPT !.pc = "login:call"]
    /\ UNCHANGED <<dbVars, envVars, tokens, reqs, last, obs, activity_logs>>

\* handleLogin after the await: apiCall(.., useAuth = false) returns or
\* throws.  On success loadUserProfile, loadMainApp and this.logActivity
\* follow; their calls read, or repeat the 'login' row the server has
\* written.
ClientLoginAnswer ==
    /\ client.pc = "login:call" /\ Answered("login")
    /\ client' =
          IF Ok(last)
          THEN [client EXCEPT !.pc = "ready", !.token = last.token,
                              !.loginTime = now, !.began = now,
                              !.storedToken = IF client.rememberMe THEN last.token ELSE @,
                              !.screen = "app"]
          ELSE IF IncludesAuthCode(ApiMessage(last))
          THEN StartLogout(client)
          ELSE [client EXCEPT !.pc = "ready"]
    /\ last' = NoResponse
    /\ UNCHANGED <<dbVars, envVars, tokens, reqs, obs, activity_logs>>

\* the callbacks of setInterval that are due: if (this.token &&
\* this.loginTime) and hours >= 24, handleLogout
ClientInterval ==
    /\ client.pc = "ready" /\ TimerDue
    /\ LET t == LastFiring(client, now)
           expired == /\ client.token # NoToken /\ client.loginTime # NoTime
                      /\ t - client.loginTime >= SESSION_HOURS * HOUR_MS
           c == [client EXCEPT !.nextCheck = t + INTERVAL_MS]
       IN  client' = IF expired THEN StartLogout(c) ELSE c
    /\ UNCHANGED <<dbVars, envVars, tokens, reqs, last, obs, activity_logs>>

\* the logout button
ClientLogoutClick ==
    /\ ClientReady /\ client.screen = "app"
    /\ Unsent
    /\ client' = StartLogout(client)
    /\ UNCHANGED <<dbVars, envVars, tokens, reqs, last, obs, activity_logs>>

\* handleLogout after the await: whatever apiCall did (this.logActivity
\* repeats the 'logout' row of the server), the finally block runs
ClientLogoutAnswer ==
    /\ client.pc = "logout:call" /\ Answered("logout")
    /\ client' = [client EXCEPT !.pc = "ready", !.token = NoToken,
                                !.loginTime = NoTime, !.began = NoTime,
                                !.storedToken = NoToken,
                                !.preservedToken = NoToken,
                                !.preservedTime = NoTime,
                                !.screen = "login"]
    /\ last' = NoResponse
    /\ UNCHANGED <<dbVars, envVars, tokens, reqs, obs, activity_logs>>

\* validateTokenAndLoadApp after the await
ClientValidateAnswer ==
    /\ client.pc = "validate:call" /\ Answered("getStats")
    /\ client' =
          IF Ok(last)
          THEN [client EXCEPT !.pc = "ready", !.screen = "app"]
          ELSE IF IncludesAuthCode(ApiMessage(last))
          THEN StartLogout([client EXCEPT !.screen = "login"])
          ELSE [client EXCEPT !.pc = "ready", !.screen = "login"]
    /\ last' = NoResponse
    /\ UNCHANGED <<dbVars, envVars, tokens, reqs, obs, activity_logs>>

\* loadDashboard up to its await
ClientLoadDashboard ==
    /\ ClientReady /\ client.screen = "app"
    /\ Unsent
    /\ client' = [client EXCEPT !.pc = "stats:call"]
    /\ UNCHANGED <<dbVars, envVars, tokens, reqs, last, obs, activity_logs>>

\* loadDashboard after the await
ClientDashboardAnswer ==
    /\ client.pc = "stats:call" /\ Answered("getStats")
    /\ client' =
          IF ~Ok(last) /\ IncludesAuthCode(ApiMessage(last))
          THEN StartLogout(client)
          ELSE [client EXCEPT !.pc = "ready"]
    /\ last' = NoResponse
    /\ UNCHANGED <<dbVars, envVars, tokens, reqs, obs, activity_logs>>

\* 500 ms: a reload; one interval; the 24 hours of a session
ClientTicks == {500, INTERVAL_MS, TOKEN_TTL_MS}

\* The timer is punctual: time passes between two handlers only, and stops
\* at a state where a callback is due until the callback has run.
ClientTick(d) ==
    /\ client.pc \in {"ready", "closed"} /\ ~TimerDue
    /\ Tick(d)

NextClient ==
    \/ \E d \in ClientTicks : ClientTick(d)
    \/ ClientOpen
    \/ \E closeTab \in BOOLEAN : ClientUnload(closeTab)
    \/ ClientRememberMe
    \/ ClientLoginSubmit
    \/ \E pw \in Passwords :
           client.pc = "login:call" /\ Unsent /\ LoginStart(1, ADMIN_EMAIL, pw)
    \/ LoginCompare(1)
    \/ LoginFailUpdate(1)
    \/ LoginOkUpdate(1)
    \/ ClientLoginAnswer
    \/ ClientInterval
    \/ ClientLogoutClick
    \/ client.pc = "logout:call" /\ Unsent /\ LogoutStart(1, client.token)
    \/ LogoutLog(1)
    \/ ClientLogoutAnswer
    \/ client.pc \in {"validate:call", "stats:call"} /\ Unsent
           /\ GetStatsStart(1, client.token)
    \/ GetStatsCount(1)
    \/ GetStatsSelect(1)
    \/ ClientValidateAnswer
    \/ ClientLoadDashboard
    \/ ClientDashboardAnswer

SpecClient == Init /\ [][NextClient]_vars

\* C23: a client that shows the application with a token never rests more
\* than 24 hours and one 60-second interval after its session began: by
\* then the interval callback has run handleLogout.
C23_AutoLogout ==
    (ClientReady /\ client.screen = "app" /\ client.token # NoToken)
        => now - client.began < SESSION_HOURS * HOUR_MS + INTERVAL_MS

(***************************************************************************)
(* PUT /api/user/profile, PUT /api/user/avatar                             *)
(***************************************************************************)
\* a parameter bound from a body field: undefined binds NULL
Bind(v) == IF v = UNDEF THEN NULL ELSE v

ProfileRows_AllRows(us, userId, name, department, position, phone) ==
    [i \in 1..Len(us) |->
        [us[i] EXCEPT !.name = Bind(name), !.department = Bind(department),
                      !.position = Bind(position), !.phone = Bind(phone)]]

\* UPDATE users SET name = ?, department = ?, position = ?, phone = ?,
\* updated_at = CURRENT_TIMESTAMP WHERE id = ?
ProfileRows(us, userId, name, department, position, phone) ==
    [i \in 1..Len(us) |->
        IF i = userId
        THEN [us[i] EXCEPT !.name = Bind(name), !.department = Bind(department),
                           !.position = Bind(position), !.phone = Bind(phone)]
        ELSE us[i]]

\* UPDATE users SET avatar_url = ?, updated_at = CURRENT_TIMESTAMP WHERE id = ?
AvatarRows(us, userId, avatar_url) ==
    [i \in 1..Len(us) |->
        IF i = userId THEN [us[i] EXCEPT !.avatar_url = avatar_url] ELSE us[i]]

\* authenticateToken
UpdateProfileStart(r, tok, name, department, position, phone) ==
    /\ FreeSlot(r)
    /\ LET a == Authenticate(tok, users, JWT_SECRET, now)
           q0 == [Idle EXCEPT !.kind = "updateProfile", !.token = tok,
                              !.name = name, !.department = department,
                              !.position = position, !.phone = phone,
                              !.at = now, !.secret = JWT_SECRET]
       IN  IF a.status # 0
           THEN Respond(r, Response(q0, a.status, a.error, FALSE))
           ELSE /\ reqs' = [reqs EXCEPT ![r] = [Authed(q0, a) EXCEPT !.pc = "update"]]
                /\ UNCHANGED last
    /\ UNCHANGED <<dbVars, envVars, tokens, obs, activity_logs, client>>

\* the UPDATE; name is NOT NULL, so a body without name fails the statement
\* and the catch block answers 500
UpdateProfileWrite(r) ==
    /\ reqs[r].kind = "updateProfile" /\ reqs[r].pc = "update"
    /\ LET q == reqs[r]
       IN  IF Bind(q.name) = NULL
           THEN /\ Respond(r, Response(q, 500, "Failed to update profile", FALSE))
                /\ UNCHANGED users
           ELSE /\ users' = ProfileRows(users, q.actorId, q.name, q.department,
                                        q.position, q.phone)
                /\ reqs' = [reqs EXCEPT ![r].pc = "select"]
                /\ UNCHANGED last
    /\ UNCHANGED <<role_permissions, tasks, envVars, tokens, obs, activity_logs, client>>

\* the SELECT of the updated profile; logActivity(.., 'profile_updated'); 200
UpdateProfileSelect(r) ==
    /\ reqs[r].kind = "updateProfile" /\ reqs[r].pc = "select"
    /\ Respond(r, Response(reqs[r], 200, "", TRUE))
    /\ activity_logs' = logActivity(activity_logs, reqs[r].actorId, "profile_updated")
    /\ UNCHANGED <<dbVars, envVars, tokens, obs, client>>

\* authenticateToken; if (!avatar_url) 400
UpdateAvatarStart(r, tok, avatar_url) ==
    /\ FreeSlot(r)
    /\ LET a == Authenticate(tok, users, JWT_SECRET, now)
           q0 == [Idle EXCEPT !.kind = "updateAvatar", !.token = tok,
                              !.avatar_url = avatar_url,
                              !.at = now, !.secret = JWT_SECRET]
           q == Authed(q0, a)
       IN  IF a.status # 0
           THEN Respond(r, Response(q0, a.status, a.error, FALSE))
           ELSE IF avatar_url \in {UNDEF, ""}
           THEN Respond(r, Response(q, 400, "Avatar URL required", FALSE))
           ELSE /\ reqs' = [reqs EXCEPT ![r] = [q EXCEPT !.pc = "update"]]
                /\ UNCHANGED last
    /\ UNCHANGED <<dbVars, envVars, tokens, obs, activity_logs, client>>

\* the UPDATE; logActivity(.., 'avatar_updated'); 200
UpdateAvatarWrite(r) ==
    /\ reqs[r].kind = "updateAvatar" /\ reqs[r].pc = "update"
    /\ users' = AvatarRows(users, reqs[r].actorId, reqs[r].avatar_url)
    /\ Respond(r, Response(reqs[r], 200, "", TRUE))
    /\ activity_logs' = logActivity(activity_logs, reqs[r].actorId, "avatar_updated")
    /\ UNCHANGED <<role_permissions, tasks, envVars, tokens, obs, client>>

ProfileAvatars == {"https://x.com/a.png", UNDEF}

\* A profile body with and without its name
ProfileBodies == {<<"Robert", "Sales">>, <<UNDEF, "Sales">>}

\* Both users log in (bob with right and wrong passwords), the administrator
\* creates bob, and both change their profiles (second connection) and
\* avatars while the other requests run.
NextProfile ==
    \/ LoginStart(1, ADMIN_EMAIL, ADMIN_PASSWORD)
    \/ \E pw \in Passwords : LoginStart(1, "bob@x.com", pw)
    \/ LoginCompare(1)
    \/ LoginFailUpdate(1)
    \/ LoginOkUpdate(1)
    \/ \E tok \in tokens : CreateUserStart(1, tok, "bob@x.com", "Secret123", "Bob", "employee")
    \/ CreateUserCheckEmail(1)
    \/ CreateUserInsert(1)
    \/ \E tok \in tokens, b \in ProfileBodies :
            UpdateProfileStart(2, tok, b[1], b[2], "Lead", UNDEF)
    \/ UpdateProfileWrite(2)
    \/ UpdateProfileSelect(2)
    \/ \E tok \in tokens, av \in ProfileAvatars : UpdateAvatarStart(1, tok, av)
    \/ UpdateAvatarWrite(1)

SpecProfile == Init /\ [][NextProfile]_vars

ProfileKinds == {"updateProfile", "updateAvatar"}

\* the columns a profile or avatar request must not touch
GuardedColumns ==
    {"email", "password_hash", "role", "is_active", "login_attempts", "locked_until"}

\* between two states, only the profile columns of user a have changed
OnlyProfileOf(a) ==
    /\ Len(users') = Len(users)
    /\ \A i \in 1..Len(users) :
           /\ i # a => users'[i] = users[i]
           /\ \A col \in GuardedColumns : users'[i][col] = users[i][col]

\* C24: every step of a PUT /api/user/profile or PUT /api/user/avatar request
\* leaves all rows but that of the token's user unchanged, and in that row
\* leaves email, password_hash, role, is_active, login_attempts and
\* locked_until unchanged.
C24_OwnProfileOnly ==
    [][\A r \in ReqIds :
          (reqs[r].kind \in ProfileKinds /\ reqs'[r] # reqs[r])
              => OnlyProfileOf(reqs[r].token.userId)]_vars

C24_Witness ==
    /\ last.kind = "updateProfile" /\ last.status = 200
    /\ last.token.userId = BOB
    /\ Len(users) = MaxUsers
    /\ users[BOB].department = "Sales" /\ users[BOB].name = "Robert"
    /\ users[BOB].avatar_url = "https://x.com/a.png"
    /\ users[1] = AdminRow

\* C25: when a PUT /api/users/:id whose body has no is_active is answered
\* 200, the target's stored is_active is what it was before the UPDATE.
C25_OmittedKeepsActive ==
    [][\A r \in ReqIds :
          (/\ reqs[r].kind = "updateUser" /\ reqs[r].pc = "update"
           /\ reqs[r].is_active = UNDEF
           /\ reqs[r].target \in 1..Len(users)
           /\ reqs'[r].pc = "idle" /\ last'.status = 200)
              => users'[reqs[r].target].is_active = users[reqs[r].target].is_active]_vars

(***************************************************************************)
(* Task access of an employee                                              *)
(***************************************************************************)
\* a sample task of the bootstrap, and the first task a request creates
TaskIds == {1, SampleTasks + 1}

\* PUT /api/tasks/:id: a sample task is given to bob, the created task is
\* given to nobody, and a body without title
UpdateBodies ==
    {<<1, "Report", BOB>>, <<SampleTasks + 1, "Report", 0>>, <<1, UNDEF, 0>>}

\* The administrator creates the employee bob; both log in, create tasks
\* (unassigned or assigned to bob), list the tasks and load the dashboard,
\* and on a second connection change, reassign and delete tasks.
NextTaskAccess ==
    \/ \E e \in {ADMIN_EMAIL, "bob@x.com"} : LoginStart(1, e, KnownPassword(e))
    \/ LoginCompare(1)
    \/ LoginOkUpdate(1)
    \/ \E tok \in tokens : CreateUserStart(1, tok, "bob@x.com", "Secret123", "Bob", "employee")
    \/ CreateUserCheckEmail(1)
    \/ CreateUserInsert(1)
    \/ \E tok \in tokens, as \in {0, BOB} : CreateTaskStart(1, tok, "Report", as)
    \/ CreateTaskInsert(1)
    \/ \E tok \in tokens : ListTasksStart(1, tok)
    \/ ListTasksSelect(1)
    \/ \E tok \in tokens : GetStatsStart(1, tok)
    \/ GetStatsCount(1)
    \/ GetStatsSelect(1)
    \/ \E tok \in tokens, b \in UpdateBodies : UpdateTaskStart(2, tok, b[1], b[2], b[3])
    \/ UpdateTaskCheck(2)
    \/ UpdateTaskWrite(2)
    \/ UpdateTaskSelect(2)
    \/ \E tok \in tokens, id \in TaskIds : DeleteTaskStart(2, tok, id)
    \/ DeleteTaskCheck(2)
    \/ DeleteTaskWrite(2)

SpecTaskAccess == Init /\ [][NextTaskAccess]_vars

\* the stored task id is neither assigned to nor created by user u
Foreign(id, u) ==
    /\ id \in 1..Len(tasks) /\ tasks[id].created_by > 0
    /\ tasks[id].assignee_id # u /\ tasks[id].created_by # u

\* the stored task id was not created by user u
NotCreatedBy(id, u) ==
    /\ id \in 1..Len(tasks) /\ tasks[id].created_by > 0
    /\ tasks[id].created_by # u

C26_State ==
    (last.kind \in {"listTasks", "getStats"} /\ last.status = 200
        /\ last.actorRole = "employee") =>
        \A t \in last.rows : t.assignee_id = last.actorId \/ t.created_by = last.actorId

C26_Step ==
    \A r \in ReqIds :
        LET q == reqs[r] IN
        (q.actorRole = "employee" /\ q.pc = "select" /\ reqs'[r] # q) =>
            /\ (q.kind = "getStats") =>
                   reqs'[r].total =
                       Cardinality({i \in 1..Len(tasks) :
                           tasks[i].assignee_id = q.actorId \/ tasks[i].created_by = q.actorId})
            /\ (q.kind = "updateTask" /\ Foreign(q.target, q.actorId)) =>
                   /\ reqs'[r].pc = "idle" /\ tasks' = tasks
                   /\ last'.kind = "updateTask" /\ last'.status = 403
            /\ (q.kind = "deleteTask" /\ NotCreatedBy(q.target, q.actorId)) =>
                   /\ reqs'[r].pc = "idle" /\ tasks' = tasks
                   /\ last'.kind = "deleteTask" /\ last'.status = 403

\* C26: a 200 answer of GET /api/tasks or of the dashboard to an employee
\* lists only tasks assigned to or created by the employee, and the
\* dashboard counts only those; an employee's PUT about a stored task that
\* is neither assigned to nor created by them, and an employee's DELETE of a
\* stored task they did not create, end at the check with 403 and leave
\* tasks as it was.
C26_EmployeeOwnTasks == [](C26_State) /\ [][C26_Step]_vars

\* bob, an employee, was refused the deletion of a task that is assigned to
\* him and that the administrator created; the task is still stored
C26_Witness ==
    /\ last.kind = "deleteTask" /\ last.status = 403
    /\ last.actorRole = "employee" /\ last.actorId = BOB
    /\ last.target \in 1..Len(tasks)
    /\ tasks[last.target] = [assignee_id |-> BOB, created_by |-> 1]

(***************************************************************************)
(* Refused logins                                                          *)
(***************************************************************************)
\* the answer of a login that was refused before the password was compared:
\* locked, deactivated, or no row for the email
RefusedEarly(resp) ==
    /\ resp.kind = "login"
    /\ \/ resp.status = 423
       \/ resp.status = 401 /\ resp.error = "Account deactivated"
       \/ resp.status = 401 /\ resp.target = 0

\* C27: the step that answers a login refused for a lock, a deactivation or
\* an unknown email leaves login_attempts and locked_until of every user as
\* they were.
C27_RefusalKeepsCounters ==
    [][((\A r \in ReqIds : reqs'[r] = reqs[r]) /\ last' # last /\ RefusedEarly(last'))
          => /\ Len(users') = Len(users)
             /\ \A u \in 1..Len(users) :
                    /\ users'[u].login_attempts = users[u].login_attempts
                    /\ users'[u].locked_until = users[u].locked_until]_vars

\* bob was refused during his lockout window: the counter is still at the
\* threshold and the lock is the one the fifth failure set
C27_Witness ==
    /\ last.kind = "login" /\ last.status = 423 /\ last.target = BOB
    /\ Len(users) = MaxUsers
    /\ users[BOB].login_attempts = LOCK_THRESHOLD
    /\ users[BOB].locked_until = obs[BOB].failAt + LOCKOUT_MS
    /\ users[BOB].locked_until > now

(***************************************************************************)
(* After the lockout window                                                *)
(***************************************************************************)
\* a stored lock always comes with a counter at or above the threshold
C28_State ==
    \A u \in UserIds :
        users[u].locked_until # NoLock => users[u].login_attempts >= LOCK_THRESHOLD

C28_Step ==
    \A r \in ReqIds :
        LET q == reqs[r]
            lockExpired == /\ users[q.target].locked_until # NoLock
                           /\ users[q.target].locked_until <= q.at
        IN  /\ (q.kind = "login" /\ q.pc = "fail_update" /\ reqs'[r] # q /\ lockExpired) =>
                   /\ users'[q.target].login_attempts = users[q.target].login_attempts + 1
                   /\ users'[q.target].locked_until = q.computedAt + LOCKOUT_MS
                   /\ last'.status = 401
            /\ (q.kind = "login" /\ q.pc = "ok_update" /\ reqs'[r] # q /\ lockExpired) =>
                   /\ users'[q.target].login_attempts = 0
                   /\ users'[q.target].locked_until = NoLock
                   /\ last'.status = 200
            /\ (q.pc = "idle" /\ reqs' = reqs /\ last' # last
                   /\ last'.kind = "login" /\ last'.status = 423) =>
                   users[last'.target].locked_until > now

\* C28: the end of a lockout window leaves the counter at 5 or more; the
\* login is then no longer refused with 423, a wrong password raises the
\* counter and writes a new lock of 15 minutes from that attempt, and a
\* correct password is answered 200 and stores counter 0 and no lock.
C28_ExpiryKeepsCounter == [](C28_State) /\ [][C28_Step]_vars

\* a wrong password after the window: the sixth failure, locked again
C28_Witness ==
    /\ last.kind = "login" /\ last.status = 401 /\ last.wrote
    /\ last.target # 0
    /\ last.at >= LOCKOUT_MS
    /\ users[last.target].login_attempts = LOCK_THRESHOLD + 1
    /\ users[last.target].locked_until = obs[last.target].failAt + LOCKOUT_MS
    /\ users[last.target].locked_until > now

(***************************************************************************)
(* The client and answers 401 and 403                                      *)
(***************************************************************************)
\* the calls the client makes with its Authorization header, apart from the
\* logout call itself
AuthedCalls == {"validate:call", "stats:call"}

\* C29: when the client resumes from an authenticated call that the server
\* answered 401 or 403, handleLogout is started; and when handleLogout
\* resumes from its logout call, whatever the answer, the client has no
\* token, the stored token is removed and the login screen is shown.
C29_AuthErrorLogsOut ==
    [][/\ (/\ client.pc \in AuthedCalls /\ client'.pc # client.pc
           /\ last.status \in {401, 403})
              => client'.pc = "logout:call"
       /\ (client.pc = "logout:call" /\ client'.pc # client.pc)
              => /\ client'.token = NoToken /\ client'.storedToken = NoToken
                 /\ client'.screen = "login"]_vars

\* C30: a PUT /api/users/:id by an administrator about another stored user
\* whose body holds is_active and nothing else (handleUserActivation) is
\* answered 200 and has written the row.
C30_ActivationAccepted ==
    (/\ last.kind = "updateUser" /\ last.actorRole = "admin"
     /\ last.target \in UserIds /\ last.target # last.actorId
     /\ last.name = UNDEF /\ last.role = UNDEF
     /\ last.is_active \in {"true", "false"})
        => last.status = 200 /\ last.wrote

====
